---- MODULE Spec2Model ----
(***************************************************************************)
(* Session store of janus-mcp (OpenAPIManager): the in-memory session map, *)
(* the persisted session index (~/.janus-mcp/sessions.json) and the       *)
(* asynchronous operations over them.  Every action is the code that runs *)
(* between two awaits of one operation; the index file, the source files  *)
(* and the clock are shared with the environment.                         *)
(***************************************************************************)
EXTENDS Integers, Sequences, FiniteSets, TLC

(* ---------------------------------------------------------------- bounds *)
\* number of identifiers uuidv4 hands out in a run
MaxIds == 2
\* last day of the clock; the clock is read on days 0, MaxDay-1, MaxDay
MaxDay == 7

\* number of paths of an OpenAPI document
MaxPaths == 2
\* the count of schema formatter calls in progress stops at MaxCalls
MaxCalls == 12

\* `daysDiff < 7` in loadPersistedSessions
StaleDays == 7

Callers == {1, 2}
Paths == {"petstore.json"}
Ids == 1..MaxIds
Days == {0, MaxDay - 1, MaxDay}
PathNames == {"/pets", "/pets/{id}", "/store"}
\* what an access or a read of a source file meets, whatever the file was at
\* the read before: a document the dereferencer accepts, a document it
\* rejects, text that does not parse, no file
SourceStates == {"ok", "noderef", "invalid", "missing"}

VARIABLES
  sessions,   \* this.sessions: Map id -> Session
  index,      \* rows of the persisted index file, in file order
  now,        \* the clock (days)
  uuids,      \* identifiers generated so far
  call,       \* per caller: the operation in flight, its position and locals
  maint,      \* the constructor's loadPersistedSessions() in flight
  issued,     \* identifiers initializeSession has returned (all runs)
  staleBoot,  \* ids whose index row was stale when the constructor ran
  api,        \* the OpenAPI document the source file holds
  walk        \* a schema formatter call in flight: its frames and its output

vars == <<sessions, index, now, uuids, call, maint, issued, staleBoot, api, walk>>

(* --------------------------------------------------------------- helpers *)
NoWalk ==
  [pc |-> "idle", caller |-> 0, kind |-> "", id |-> 0, schema |-> <<>>,
   depth |-> 0, refName |-> "", pending |-> <<>>, calls |-> 0, base |-> 0,
   visits |-> {}, entry |-> <<>>, prev |-> <<>>]
None == <<>>
Some(x) == <<x>>

\* Date.prototype.toISOString / new Date(isoString)
toISOString(t) == [iso |-> t]
parseDate(s) == s.iso

Has(rows, id) == \E i \in 1..Len(rows) : rows[i].id = id
\* Array.prototype.findIndex: first matching position, 0 when there is none
findIndex(rows, id) ==
  IF Has(rows, id) THEN CHOOSE i \in 1..Len(rows) :
                          /\ rows[i].id = id
                          /\ \A j \in 1..(i - 1) : rows[j].id # id
  ELSE 0

RowOf(rows, id) == rows[findIndex(rows, id)]
\* Array.prototype.filter(s => s.id !== sessionId), keeping the order
Others(rows, id) == LET keep(r) == r.id # id IN SelectSeq(rows, keep)

\* Map.prototype.set / delete
MapSet(m, id, s) == [i \in DOMAIN m \cup {id} |-> IF i = id THEN s ELSE m[i]]
MapDelete(m, id) == [i \in DOMAIN m \ {id} |-> m[i]]

\* uuidv4(): an identifier never generated before
uuidv4_reused(n) == 1
uuidv4(n) == n + 1

\* the document a source yields: the dereferenced one, or the raw one when
\* SwaggerParser.dereference throws
Document(path, st) == [doc |-> path, dereferenced |-> (st = "ok")]

(* ------------------------------------------------------ OpenAPI documents *)
\* A JavaScript object is the sequence of its entries <<key, value>> in the
\* order Object.keys / Object.entries enumerate them; an optional value is
\* None (undefined) or Some(v).
Keys(obj) == [i \in 1..Len(obj) |-> obj[i][1]]
HasKey(obj, k) == \E i \in 1..Len(obj) : obj[i][1] = k
\* obj[k]
Get(obj, k) ==
  IF HasKey(obj, k) THEN Some(obj[CHOOSE i \in 1..Len(obj) : obj[i][1] = k][2])
  ELSE None
\* a || b
Or(a, b) == IF a # None THEN a ELSE b
Includes(seq, x) == \E i \in 1..Len(seq) : seq[i] = x
Last(seq) == seq[Len(seq)]

\* String.prototype.toLowerCase / toUpperCase on the strings of the model
Lowered == [GET |-> "get", POST |-> "post", Post |-> "post",
            DELETE |-> "delete", TRACE |-> "trace", PARAMETERS |-> "parameters"]
Uppered == [get |-> "GET", post |-> "POST", Post |-> "POST",
            put |-> "PUT", delete |-> "DELETE", patch |-> "PATCH",
            head |-> "HEAD", options |-> "OPTIONS", trace |-> "TRACE",
            parameters |-> "PARAMETERS", bogus |-> "BOGUS"]
toLowerCase(s) == IF s \in DOMAIN Lowered THEN Lowered[s] ELSE s
toUpperCase(s) == IF s \in DOMAIN Uppered THEN Uppered[s] ELSE s

\* a schema node: `type`, `items`, `$ref` (the pointer split on "/") and
\* `properties`, each present or not
Schema(type, items, ref, properties) ==
  [type |-> type, items |-> items, ref |-> ref, properties |-> properties]
Primitive(t) == Schema(Some(t), None, None, None)
Ref(name) == Schema(None, None, Some(<<"#", "components", "schemas", name>>), None)
ArrayOf(items) == Schema(Some("array"), Some(items), None, None)
ObjectOf(properties) == Schema(Some("object"), None, None, Some(properties))
Untyped == Schema(None, None, None, None)

\* a media type object, a request body, a response, a parameter, an operation
Media(schema, examples) == [schema |-> schema, examples |-> examples]
Body(required, content) == [required |-> required, content |-> content]
Response(description, content) == [description |-> description, content |-> content]
Param(name, in, schema) ==
  [name |-> name, in |-> in, required |-> Some(in = "path"), schema |-> schema,
   type |-> None]
Operation(operationId, tags, parameters, requestBody, responses, security) ==
  [operationId |-> operationId, summary |-> None, description |-> None,
   tags |-> tags, parameters |-> parameters, requestBody |-> requestBody,
   responses |-> responses, security |-> security]
\* a path-item: an object (its entries), or what a malformed document puts
\* in its place, a string (it has no entries)
PathItem(entries) == [kind |-> "object", entries |-> entries]
StringPathItem == [kind |-> "string", entries |-> <<>>]
Api(paths, tags, components, security) ==
  [paths |-> paths, tags |-> tags, components |-> components, security |-> security]

JsonContent == <<<<"application/json", Media(Some(Ref("Pet")), Some("example"))>>,
                 <<"text/plain", Media(Some(Primitive("string")), None)>>>>
\* the operations of the documents of the model: one with nothing optional,
\* one with tags, parameters and a response, one with a request body,
\* two responses, security and two tags, one whose request body and response
\* have an empty content mapping
BareOperation == Operation(None, None, None, None, None, None)
ListOperation ==
  Operation(Some("listPets"), Some(<<"pets">>),
            Some(<<Param("limit", "query", Some(Primitive("integer")))>>), None,
            Some(<<<<"200", Response(Some("ok"), Some(JsonContent))>>>>), None)
CreateOperation ==
  Operation(Some("createPet"), Some(<<"admin", "pets">>), None,
            Some(Body(Some(TRUE), Some(JsonContent))),
            Some(<<<<"201", Response(Some("created"), Some(JsonContent))>>,
                   <<"default", Response(Some("error"), None)>>>>),
            Some(<<"apiKey">>))
EmptyContentOperation ==
  Operation(Some("deletePet"), Some(<<"store">>), None,
            Some(Body(None, Some(<<>>))),
            Some(<<<<"204", Response(Some("gone"), Some(<<>>))>>>>), None)

IdParam == Param("id", "path", Some(Primitive("string")))
\* the path-items of the documents of the model: a string; an object whose
\* entries are declared post before get; an object with path-level
\* parameters and four operations
PathItems ==
  { StringPathItem,
    PathItem(<<<<"post", ListOperation>>, <<"get", BareOperation>>>>),
    PathItem(<<<<"parameters", <<IdParam>>>>, <<"get", CreateOperation>>,
               <<"delete", EmptyContentOperation>>, <<"trace", BareOperation>>>>) }

PetSchema == ObjectOf(<<<<"id", Primitive("integer")>>, <<"name", Primitive("string")>>>>)
Components == <<<<"schemas", <<<<"Pet", PetSchema>>>>>>>>
\* what the document declares next to its paths: nothing; global tags,
\* components and a global security requirement
Declared ==
  { [tags |-> None, components |-> None, security |-> None],
    [tags |-> Some(<<[name |-> "store"], [name |-> "pets"]>>),
     components |-> Some(Components), security |-> Some(<<"oauth2">>)] }

\* the path mappings: up to MaxPaths paths, each path once, in any order
PathLists ==
  { s \in UNION { [1..n -> PathNames \X PathItems] : n \in 0..MaxPaths } :
      \A i, j \in 1..Len(s) : i # j => s[i][1] # s[j][1] }
\* the documents the queries are checked on
Specifications ==
  { Api(paths, d.tags, d.components, d.security) :
      paths \in {None} \cup {Some(s) : s \in PathLists}, d \in Declared }
\* the document of the one source file of the session store
Petstore ==
  Api(Some(<<<<"/pets", PathItem(<<<<"get", ListOperation>>>>)>>>>),
      Some(<<[name |-> "pets"]>>), Some(Components), None)

\* the options bundle: each flag omitted (None) or given
QueryOptions(p, b, r, sec, ex, sch, codes) ==
  [includeParameters |-> p, includeRequestBody |-> b, includeResponses |-> r,
   includeSecurity |-> sec, includeExamples |-> ex, includeSchemas |-> sch,
   responseStatusCodes |-> codes]
\* `options: QueryOptions = {}`
NoOptions == QueryOptions(None, None, None, None, None, None, None)
\* the arguments a query or a tool call carries
Args(tags, methods, path, method, options, componentType, outputFormat) ==
  [tags |-> tags, methods |-> methods, path |-> path, method |-> method,
   options |-> options, componentType |-> componentType,
   outputFormat |-> outputFormat]
NoArgs == Args(None, None, "", "", NoOptions, None, "")

(* ------------------------------------------------------------------ calls *)
Idle == [op |-> "idle", pc |-> "idle", id |-> 0, path |-> "", buf |-> <<>>,
         session |-> None, row |-> None, res |-> None, failed |-> {},
         seen |-> "none", t0 |-> 0, pre |-> None, prev |-> None,
         args |-> NoArgs, held |-> None, reply |-> None]

Returned(v) == Some([threw |-> FALSE, value |-> v, message |-> <<>>])
Thrown(msg) == Some([threw |-> TRUE, value |-> 0, message |-> msg])
\* the cause a failed source read or parse carries
Cause(st) == IF st = "missing" THEN "ENOENT: no such file or directory"
             ELSE "Unexpected token in JSON"

Begin(c, op, id, path) ==
  [Idle EXCEPT !.op = op, !.id = id, !.path = path, !.t0 = now,
               !.pre = Some([sessions |-> sessions, index |-> index])]

Init ==
  /\ sessions = <<>>
  /\ index = <<>>
  /\ now = 0
  /\ uuids = 0
  /\ call = [c \in Callers |-> Idle]
  /\ maint = [pc |-> "m_read", buf |-> <<>>, failed |-> FALSE]
  /\ issued = {}
  /\ staleBoot = {}
  /\ api = Petstore
  /\ walk = NoWalk


Put(c, rec) == call' = [call EXCEPT ![c] = rec]
At(c, pc) == call[c].pc = pc
Fail(rec, ok, what) == IF ok THEN rec.failed ELSE rec.failed \cup {what}
\* a catch that drops the cause
ParseError_unknown(st) == <<"Failed to parse OpenAPI spec: ", "Unknown error">>
\* the message initializeSession's catch throws
ParseError(st) == <<"Failed to parse OpenAPI spec: ", Cause(st)>>

(* ---------------------------------------------------------- query engine *)
allMethods == <<"get", "post", "put", "delete", "patch", "head", "options", "trace">>

\* methods && methods.length > 0 ? allMethods.filter(...) : allMethods
methodsToCheck_sensitive(methods) ==
  IF methods # None /\ Len(methods[1]) > 0
  THEN LET wanted(method) == Includes(methods[1], method)
       IN SelectSeq(allMethods, wanted)
  ELSE allMethods
methodsToCheck(methods) ==
  IF methods # None /\ Len(methods[1]) > 0
  THEN LET wanted(method) ==
             \E i \in 1..Len(methods[1]) :
                toLowerCase(methods[1][i]) = toLowerCase(method)
       IN SelectSeq(allMethods, wanted)
  ELSE allMethods

\* the summary listEndpoints pushes
EndpointSummary(path, method, operation) ==
  [path |-> path, method |-> toUpperCase(method),
   operationId |-> operation.operationId, summary |-> operation.summary,
   description |-> operation.description, tags |-> operation.tags]

\* tags && tags.length > 0 and no requested tag is among the operation's
tagsExclude_all(operation, tags) ==
  /\ tags # None
  /\ Len(tags[1]) > 0
  /\ LET operationTags == Or(operation.tags, Some(<<>>))[1]
     IN ~\A i \in 1..Len(tags[1]) : Includes(operationTags, tags[1][i])
tagsExclude(operation, tags) ==
  /\ tags # None
  /\ Len(tags[1]) > 0
  /\ LET operationTags == Or(operation.tags, Some(<<>>))[1]
     IN ~\E i \in 1..Len(tags[1]) : Includes(operationTags, tags[1][i])

\* the inner loop of listEndpoints over the methods still to check
RECURSIVE listOperations(_, _, _, _)
listOperations(path, pathItem, todo, tags) ==
  IF todo = <<>> THEN <<>>
  ELSE LET method == Head(todo)
           operation == Get(pathItem.entries, method)
           rest == listOperations(path, pathItem, Tail(todo), tags)
       IN IF operation = None THEN rest
          ELSE IF tagsExclude(operation[1], tags) THEN rest
          ELSE <<EndpointSummary(path, method, operation[1])>> \o rest

\* the outer loop of listEndpoints over Object.entries(spec.paths)
RECURSIVE listPaths_reversed(_, _, _)
listPaths_reversed(paths, tags, methods) ==
  IF paths = <<>> THEN <<>>
  ELSE LET path == Head(paths)[1]
           pathItem == Head(paths)[2]
           rest == listPaths_reversed(Tail(paths), tags, methods)
       IN IF pathItem.kind # "object" THEN rest
          ELSE rest \o listOperations(path, pathItem, methodsToCheck(methods), tags)
RECURSIVE listPaths(_, _, _)
listPaths(paths, tags, methods) ==
  IF paths = <<>> THEN <<>>
  ELSE LET path == Head(paths)[1]
           pathItem == Head(paths)[2]
           rest == listPaths(Tail(paths), tags, methods)
       IN IF pathItem.kind # "object" THEN rest
          ELSE listOperations(path, pathItem, methodsToCheck(methods), tags) \o rest

\* listEndpoints once the session is resolved
listEndpoints(spec, tags, methods) ==
  IF spec.paths = None THEN <<>> ELSE listPaths(spec.paths[1], tags, methods)

\* if (options.flag)
Enabled_defined(flag) == flag # None
Enabled(flag) == flag # None /\ flag[1]

TypeError(property) ==
  <<"Cannot read properties of undefined (reading '", property, "')">>

\* extractParameters: path-level parameters, then the operation's
ParameterInfo(param) ==
  [name |-> param.name, in |-> param.in, required |-> param.required,
   type |-> IF param.schema # None THEN param.schema[1].type ELSE param.type,
   schema |-> param.schema]
extractParameters(operation, pathItem) ==
  LET allParams == Or(Get(pathItem.entries, "parameters"), Some(<<>>))[1]
                     \o Or(operation.parameters, Some(<<>>))[1]
  IN [i \in 1..Len(allParams) |-> ParameterInfo(allParams[i])]

\* what extractRequestBody and extractResponses take from a content mapping
\* that is there: the first content type and its media object, whose schema
\* and examples are read when the flags ask for them
FirstContent(mapping, options) ==
  LET contentTypes == Keys(mapping)
      contentType == IF Len(contentTypes) > 0 THEN Some(contentTypes[1]) ELSE None
      content == IF contentType = None THEN None ELSE Get(mapping, contentType[1])
  IN IF Enabled(options.includeSchemas) /\ content = None
     THEN Thrown(TypeError("schema"))
     ELSE IF Enabled(options.includeExamples) /\ content = None
     THEN Thrown(TypeError("examples"))
     ELSE Returned([contentType |-> contentType,
                    schema |-> IF Enabled(options.includeSchemas)
                               THEN content[1].schema ELSE None,
                    examples |-> IF Enabled(options.includeExamples)
                                 THEN content[1].examples ELSE None])
NoContent == Returned([contentType |-> None, schema |-> None, examples |-> None])

extractRequestBody(requestBody, options) ==
  LET got == IF requestBody.content # None
             THEN FirstContent(requestBody.content[1], options) ELSE NoContent
  IN IF got[1].threw THEN got
     ELSE Returned([required |-> requestBody.required,
                    contentType |-> got[1].value.contentType,
                    schema |-> got[1].value.schema,
                    examples |-> got[1].value.examples])

\* the loop of extractResponses over Object.entries(responses)
RECURSIVE extractResponses(_, _)
extractResponses(responses, options) ==
  IF responses = <<>> THEN Returned(<<>>)
  ELSE LET statusCode == Head(responses)[1]
           response == Head(responses)[2]
           skipped == /\ options.responseStatusCodes # None
                      /\ ~Includes(options.responseStatusCodes[1], statusCode)
           got == IF response.content # None
                  THEN FirstContent(response.content[1], options) ELSE NoContent
           rest == extractResponses(Tail(responses), options)
       IN IF skipped THEN rest
          ELSE IF got[1].threw THEN got
          ELSE IF rest[1].threw THEN rest
          ELSE Returned(<<[statusCode |-> statusCode,
                           description |-> response.description,
                           contentType |-> got[1].value.contentType,
                           schema |-> got[1].value.schema,
                           examples |-> got[1].value.examples]>> \o rest[1].value)

\* pathItem[key] read as an operation: the operation under a method key; under
\* `parameters` an array, whose operationId, tags, requestBody, ... are
\* undefined
Member(key, value) == IF key = "parameters" THEN BareOperation ELSE value

\* getEndpointDetails once the session is resolved: null, the details, or
\* the TypeError an extraction raised
getEndpointDetails(spec, path, method, options) ==
  LET pathItem == IF spec.paths = None THEN None ELSE Get(spec.paths[1], path)
      operation == IF pathItem = None THEN None
                   ELSE Get(pathItem[1].entries, toLowerCase(method))
      op == Member(toLowerCase(method), operation[1])
      withBody == Enabled(options.includeRequestBody) /\ op.requestBody # None
      requestBody == extractRequestBody(op.requestBody[1], options)
      withResponses == Enabled(options.includeResponses) /\ op.responses # None
      responses == extractResponses(op.responses[1], options)
  IN IF operation = None THEN Returned(None)
     ELSE IF withBody /\ requestBody[1].threw THEN requestBody
     ELSE IF withResponses /\ responses[1].threw THEN responses
     ELSE Returned(Some(
       [path |-> path, method |-> toUpperCase(method),
        operationId |-> op.operationId, summary |-> op.summary,
        description |-> op.description, tags |-> op.tags,
        parameters |-> IF Enabled(options.includeParameters)
                       THEN Some(extractParameters(op, pathItem[1])) ELSE None,
        requestBody |-> IF withBody THEN Some(requestBody[1].value) ELSE None,
        responses |-> IF withResponses THEN Some(responses[1].value) ELSE None,
        security |-> IF Enabled(options.includeSecurity)
                     THEN Or(op.security, spec.security) ELSE None]))

\* Set.prototype.add for each element, in order
RECURSIVE addAll(_, _)
addAll(tags, new) ==
  IF new = <<>> THEN tags
  ELSE addAll(IF Includes(tags, Head(new)) THEN tags ELSE Append(tags, Head(new)),
              Tail(new))

\* the tags of the operations of one path-item, methods in the fixed order
RECURSIVE operationTags(_, _)
operationTags(pathItem, todo) ==
  IF todo = <<>> THEN <<>>
  ELSE LET operation == Get(pathItem.entries, Head(todo))
           rest == operationTags(pathItem, Tail(todo))
       IN IF operation # None /\ operation[1].tags # None
          THEN operation[1].tags[1] \o rest ELSE rest

\* the loop of getTags over Object.values(spec.paths)
RECURSIVE pathTags(_)
pathTags(paths) ==
  IF paths = <<>> THEN <<>>
  ELSE LET pathItem == Head(paths)[2]
       IN (IF pathItem.kind # "object" THEN <<>>
           ELSE operationTags(pathItem, allMethods)) \o pathTags(Tail(paths))

\* getTags once the session is resolved: Array.from of the Set
getTags_operationsFirst(spec) ==
  LET global == IF spec.tags = None THEN <<>>
                ELSE [i \in 1..Len(spec.tags[1]) |-> spec.tags[1][i].name]
      used == IF spec.paths = None THEN <<>> ELSE pathTags(spec.paths[1])
  IN addAll(addAll(<<>>, used), global)
getTags(spec) ==
  LET global == IF spec.tags = None THEN <<>>
                ELSE [i \in 1..Len(spec.tags[1]) |-> spec.tags[1][i].name]
      used == IF spec.paths = None THEN <<>> ELSE pathTags(spec.paths[1])
  IN addAll(addAll(<<>>, global), used)

\* the info block of the documents of the model
InfoBlock ==
  [title |-> Some("Petstore"), version |-> Some("1.0.0"), description |-> None,
   baseUrl |-> None]
\* getSessionInfo once the session is resolved
getSessionInfo(spec) == InfoBlock

\* getComponents once the session is resolved
getComponents(spec, componentType) ==
  LET components == Or(spec.components, Some(<<>>))[1]
  IN IF componentType # None
     THEN Or(Get(components, componentType[1]), Some(<<>>))[1]
     ELSE components

(* ------------------------------------------------------------ transformers *)
\* a response text: its lines, each the pieces it is made of, or the value
\* JSON.stringify serializes
Text(lines) == [lines |-> lines, json |-> None]
Sentence(s) == Text(<<<<s>>>>)
stringify(data) == [lines |-> <<>>, json |-> Some(data)]

\* createTransformer: the strategy of a format name
createTransformer(format) ==
  CASE format = "compact" -> "CompactTransformer"
    [] format = "structured" -> "StructuredTransformer"
    [] format = "markdown" -> "MarkdownTransformer"
    [] OTHER -> "JsonTransformer"

\* Array.prototype.join
RECURSIVE join(_, _)
join(strings, separator) ==
  IF strings = <<>> THEN <<>>
  ELSE IF Len(strings) = 1 THEN strings
  ELSE <<Head(strings), separator>> \o join(Tail(strings), separator)
\* `if (value) result += label + value`, and `value?.length`
Piece(label, value) == IF value # None THEN <<label, value[1]>> ELSE <<>>
Line(label, value) == IF value # None THEN <<<<label, value[1]>>>> ELSE <<>>
Filled(list) == list # None /\ Len(list[1]) > 0

\* formatSchemaType of transformers.ts
RECURSIVE formatSchemaType(_)
formatSchemaType(schema) ==
  IF schema = None THEN <<"unknown">>
  ELSE IF schema[1].type # None
  THEN IF schema[1].type[1] = "array" /\ schema[1].items # None
       THEN formatSchemaType(schema[1].items) \o <<"[]">>
       ELSE <<schema[1].type[1]>>
  ELSE IF schema[1].ref # None
  THEN <<IF Last(schema[1].ref[1]) # "" THEN Last(schema[1].ref[1]) ELSE "ref">>
  ELSE <<"object">>

\* transformEndpointsList({count, endpoints}) of the four strategies (the
\* code-span mark of Markdown is written ')
EndpointLine(transformer, ep) ==
  CASE transformer = "CompactTransformer" ->
         <<<<ep.method, " ", ep.path, " - ">>
             \o (IF ep.summary # None THEN ep.summary ELSE <<"">>) \o <<" ">>
             \o (IF Filled(ep.tags) THEN <<"[">> \o join(ep.tags[1], ",") \o <<"]">>
                 ELSE <<"">>)>>
    [] transformer = "StructuredTransformer" ->
         <<<<ep.method, " ", ep.path>>>>
           \o Line("  Summary: ", ep.summary)
           \o Line("  Operation ID: ", ep.operationId)
           \o (IF Filled(ep.tags)
               THEN <<<<"  Tags: ">> \o join(ep.tags[1], ", ")>> ELSE <<>>)
           \o Line("  Description: ", ep.description)
    [] transformer = "MarkdownTransformer" ->
         <<<<"## ", ep.method, " '", ep.path, "'">>>>
           \o Line("**Summary:** ", ep.summary)
           \o Line("**Operation ID:** ", ep.operationId)
           \o (IF Filled(ep.tags)
               THEN <<<<"**Tags:** ">> \o join(ep.tags[1], ", ")>> ELSE <<>>)
           \o Line("", ep.description)
           \o <<<<"---">>>>
RECURSIVE EndpointLines(_, _)
EndpointLines(transformer, endpoints) ==
  IF endpoints = <<>> THEN <<>>
  ELSE EndpointLine(transformer, Head(endpoints))
         \o EndpointLines(transformer, Tail(endpoints))
transformEndpointsList(transformer, endpoints) ==
  LET count == ToString(Len(endpoints))
  IN IF transformer = "JsonTransformer"
     THEN stringify([count |-> Len(endpoints), endpoints |-> endpoints])
     ELSE IF Len(endpoints) = 0 THEN Sentence("No endpoints found")
     ELSE Text(<<CASE transformer = "CompactTransformer" ->
                        <<"Found ", count, " endpoints:">>
                   [] transformer = "StructuredTransformer" ->
                        <<"Endpoints (", count, " total):">>
                   [] transformer = "MarkdownTransformer" ->
                        <<"# Endpoints (", count, " total)">>>>
               \o EndpointLines(transformer, endpoints))

\* transformTags({count, tags})
transformTags_total(transformer, tags) ==
  LET count == ToString(Len(tags))
  IN CASE transformer = "JsonTransformer" ->
            stringify([count |-> Len(tags), tags |-> tags])
       [] transformer = "CompactTransformer" ->
            Text(<<<<"Found ", count, " tags: ">> \o join(tags, ", ")>>)
       [] transformer = "StructuredTransformer" ->
            Text(<<<<"Tags (", count, " total):">>>>
                 \o [i \in 1..Len(tags) |-> <<"  - ", tags[i]>>])
       [] transformer = "MarkdownTransformer" ->
            Text(<<<<"# Tags (", count, " total)">>>>
                 \o [i \in 1..Len(tags) |-> <<"- ", tags[i]>>])
transformTags(transformer, tags) ==
  LET count == ToString(Len(tags))
  IN IF transformer = "JsonTransformer"
     THEN stringify([count |-> Len(tags), tags |-> tags])
     ELSE IF Len(tags) = 0 THEN Sentence("No tags found")
     ELSE CASE transformer = "CompactTransformer" ->
                 Text(<<<<"Found ", count, " tags: ">> \o join(tags, ", ")>>)
            [] transformer = "StructuredTransformer" ->
                 Text(<<<<"Tags (", count, " total):">>>>
                      \o [i \in 1..Len(tags) |-> <<"  - ", tags[i]>>])
            [] transformer = "MarkdownTransformer" ->
                 Text(<<<<"# Tags (", count, " total)">>>>
                      \o [i \in 1..Len(tags) |-> <<"- ", tags[i]>>])

\* Object.keys(items) of a value of the components mapping: the mapping of one
\* component type when all components were asked for, one schema object when
\* the components of a type were asked for (typed)
SchemaKeys(schema) ==
  (IF schema.type # None THEN <<"type">> ELSE <<>>)
    \o (IF schema.items # None THEN <<"items">> ELSE <<>>)
    \o (IF schema.ref # None THEN <<"$ref">> ELSE <<>>)
    \o (IF schema.properties # None THEN <<"properties">> ELSE <<>>)
ItemNames(items, typed) == IF typed THEN SchemaKeys(items) ELSE Keys(items)

\* transformComponents(data)
RECURSIVE ComponentLines(_, _, _)
ComponentLines(transformer, data, typed) ==
  IF data = <<>> THEN <<>>
  ELSE LET type == Head(data)[1]
           itemNames == ItemNames(Head(data)[2], typed)
           count == ToString(Len(itemNames))
           rest == ComponentLines(transformer, Tail(data), typed)
       IN CASE transformer = "CompactTransformer" ->
                 <<<<type, ": ", count, " items">>>> \o rest
            [] transformer = "StructuredTransformer" ->
                 <<<<"  ", type, " (", count, "):">>>>
                   \o [i \in 1..Len(itemNames) |-> <<"    - ", itemNames[i]>>] \o rest
            [] transformer = "MarkdownTransformer" ->
                 <<<<"## ", type, " (", count, ")">>>>
                   \o [i \in 1..Len(itemNames) |-> <<"- '", itemNames[i], "'">>] \o rest
transformComponents(transformer, data, typed) ==
  IF transformer = "JsonTransformer" THEN stringify(data)
  ELSE IF Len(Keys(data)) = 0 THEN Sentence("No components found")
  ELSE Text((CASE transformer = "CompactTransformer" -> <<>>
               [] transformer = "StructuredTransformer" -> <<<<"Components:">>>>
               [] transformer = "MarkdownTransformer" -> <<<<"# Components">>>>)
            \o ComponentLines(transformer, data, typed))

\* transformSessionInfo(info)
transformSessionInfo(transformer, data) ==
  LET compact == (IF data.title # None \/ data.version # None
                  THEN <<Piece("API: ", data.title) \o Piece(" v", data.version)>>
                  ELSE <<>>)
                   \o Line("Base URL: ", data.baseUrl)
                   \o Line("Description: ", data.description)
  IN CASE transformer = "JsonTransformer" -> stringify(data)
       [] transformer = "CompactTransformer" ->
            IF compact = <<>> THEN Sentence("No session info available")
            ELSE Text(compact)
       [] transformer = "StructuredTransformer" ->
            Text(<<<<"Session Information:">>>>
                 \o Line("  Title: ", data.title) \o Line("  Version: ", data.version)
                 \o Line("  Base URL: ", data.baseUrl)
                 \o Line("  Description: ", data.description))
       [] transformer = "MarkdownTransformer" ->
            Text(<<<<"# Session Information">>>>
                 \o Line("**Title:** ", data.title) \o Line("**Version:** ", data.version)
                 \o Line("**Base URL:** ", data.baseUrl)
                 \o Line("**Description:** ", data.description))

\* transformEndpointDetails(details): the head, then the parameters, the
\* request body and the responses that are there
Truthy(flag) == flag = Some(TRUE)
TypeOf(param) == IF param.type # None THEN param.type ELSE formatSchemaType(param.schema)
DetailsHead(transformer, data) ==
  LET tags == IF Filled(data.tags) THEN data.tags[1] ELSE <<>>
  IN CASE transformer = "CompactTransformer" ->
            <<<<data.method, " ", data.path>> \o Piece(" - ", data.summary)
                \o (IF tags # <<>> THEN <<" [">> \o join(tags, ",") \o <<"]">> ELSE <<>>)>>
       [] transformer = "StructuredTransformer" ->
            <<<<"Endpoint: ", data.method, " ", data.path>>>>
              \o Line("Summary: ", data.summary)
              \o Line("Operation ID: ", data.operationId)
              \o (IF tags # <<>> THEN <<<<"Tags: ">> \o join(tags, ", ")>> ELSE <<>>)
              \o Line("Description: ", data.description)
       [] transformer = "MarkdownTransformer" ->
            <<<<"# ", data.method, " '", data.path, "'">>>>
              \o Line("**Summary:** ", data.summary)
              \o Line("**Operation ID:** ", data.operationId)
              \o (IF tags # <<>> THEN <<<<"**Tags:** ">> \o join(tags, ", ")>> ELSE <<>>)
              \o Line("", data.description)
ParameterLines(transformer, parameters) ==
  IF ~Filled(parameters) THEN <<>>
  ELSE LET params == parameters[1]
       IN CASE transformer = "CompactTransformer" ->
                 <<<<"Params:">>>>
                   \o [i \in 1..Len(params) |->
                         <<"  ", params[i].name,
                           IF Truthy(params[i].required) THEN "*" ELSE "",
                           " (", params[i].in, "): ">> \o TypeOf(params[i])]
            [] transformer = "StructuredTransformer" ->
                 <<<<"Parameters:">>>>
                   \o [i \in 1..Len(params) |->
                         <<"  - ", params[i].name,
                           IF Truthy(params[i].required) THEN " (required)" ELSE "",
                           ": ">> \o TypeOf(params[i]) \o <<" (", params[i].in, ")">>]
            [] transformer = "MarkdownTransformer" ->
                 <<<<"## Parameters">>>>
                   \o [i \in 1..Len(params) |->
                         <<"- **", params[i].name, "**",
                           IF Truthy(params[i].required) THEN " *(required)*" ELSE "",
                           ": '">> \o TypeOf(params[i]) \o <<"' (", params[i].in, ")">>]
RequestBodyLines(transformer, requestBody) ==
  IF requestBody = None THEN <<>>
  ELSE LET body == requestBody[1]
           type == Or(body.contentType, Some("application/json"))[1]
           schema == IF body.schema # None THEN formatSchemaType(body.schema) ELSE <<>>
       IN CASE transformer = "CompactTransformer" ->
                 <<<<"Body:">>,
                   <<"  ", type, IF Truthy(body.required) THEN " (required)" ELSE "">>
                     \o (IF body.schema # None THEN <<" - ">> \o schema ELSE <<>>)>>
            [] transformer = "StructuredTransformer" ->
                 <<<<"Request Body:">>,
                   <<"  Content Type: ", type,
                     IF Truthy(body.required) THEN " (required)" ELSE "">>>>
                   \o (IF body.schema # None THEN <<<<"  Schema: ">> \o schema>> ELSE <<>>)
            [] transformer = "MarkdownTransformer" ->
                 <<<<"## Request Body">>,
                   <<"**Content Type:** '", type, "'",
                     IF Truthy(body.required) THEN " *(required)*" ELSE "">>>>
                   \o (IF body.schema # None
                       THEN <<<<"**Schema:** '">> \o schema \o <<"'">>>> ELSE <<>>)
RECURSIVE ResponseLines(_, _)
ResponseLines(transformer, responses) ==
  IF responses = <<>> THEN <<>>
  ELSE LET resp == Head(responses)
           description == Or(resp.description, Some("No description"))[1]
           schema == IF resp.schema # None THEN formatSchemaType(resp.schema) ELSE <<>>
           rest == ResponseLines(transformer, Tail(responses))
       IN CASE transformer = "CompactTransformer" ->
                 <<<<"  ", resp.statusCode, ": ", description>>
                     \o (IF resp.contentType # None /\ resp.schema # None
                         THEN <<" (">> \o schema \o <<")">> ELSE <<>>)>> \o rest
            [] transformer = "StructuredTransformer" ->
                 <<<<"  ", resp.statusCode, ": ", description>>>>
                   \o Line("    Content Type: ", resp.contentType)
                   \o (IF resp.schema # None
                       THEN <<<<"    Schema: ">> \o schema>> ELSE <<>>) \o rest
            [] transformer = "MarkdownTransformer" ->
                 <<<<"### ", resp.statusCode>>, <<description>>>>
                   \o Line("**Content Type:** ", resp.contentType)
                   \o (IF resp.schema # None
                       THEN <<<<"**Schema:** '">> \o schema \o <<"'">>>> ELSE <<>>) \o rest
transformEndpointDetails(transformer, data) ==
  IF transformer = "JsonTransformer" THEN stringify(data)
  ELSE Text(DetailsHead(transformer, data)
            \o ParameterLines(transformer, data.parameters)
            \o RequestBodyLines(transformer, data.requestBody)
            \o (IF ~Filled(data.responses) THEN <<>>
                ELSE <<<<CASE transformer = "MarkdownTransformer" -> "## Responses"
                           [] OTHER -> "Responses:">>>>
                       \o ResponseLines(transformer, data.responses[1]))
            \o (IF transformer = "StructuredTransformer" /\ Filled(data.security)
                THEN <<<<"Security:">>, <<"  ">> \o data.security[1]>> ELSE <<>>))

\* transformSuccess({success, sessionId, message}) and transformError
transformSuccess(transformer, success, sessionId, message) ==
  CASE transformer = "JsonTransformer" ->
         stringify([success |-> success, sessionId |-> sessionId, message |-> message])
    [] transformer = "CompactTransformer" ->
         Text(<<message>> \o Line("Session ID: ", sessionId))
    [] transformer = "StructuredTransformer" ->
         Text(<<<<"Success: ">> \o message>> \o Line("Session ID: ", sessionId))
    [] transformer = "MarkdownTransformer" ->
         Text(<<<<"**Success:** ">> \o message>> \o Line("**Session ID:** ", sessionId))
transformError(transformer, message) ==
  CASE transformer = "JsonTransformer" ->
         stringify([error |-> TRUE, message |-> message])
    [] transformer \in {"CompactTransformer", "StructuredTransformer"} ->
         Text(<<<<"Error: ">> \o message>>)
    [] transformer = "MarkdownTransformer" ->
         Text(<<<<"**Error:** ">> \o message>>)

(* ------------------------------------------------------ initializeSession *)
\* the format of a session initialized without one
getDefaultOutputFormat == "compact"
\* initializeSession(source, outputFormat): the format the session gets
SessionFormat(rec) ==
  IF rec.args.outputFormat # "" THEN rec.args.outputFormat
  ELSE getDefaultOutputFormat

\* what persistSession's caller returns: initializeSession the identifier,
\* setSessionOutputFormat true
AfterPersist(rec) ==
  IF rec.op = "initializeSession" THEN Returned(rec.id) ELSE Returned(TRUE)

\* the call, up to `await readFile(filePath)`
InitializeSession(c, path) ==
  /\ call[c].op = "idle"
  /\ uuids < MaxIds
  /\ Put(c, [Begin(c, "initializeSession", 0, path) EXCEPT !.pc = "init_read"])
  /\ UNCHANGED <<sessions, index, now, uuids, maint, issued, staleBoot, api, walk>>

\* readFile and load/JSON.parse of the source; a failure reaches the catch
InitReadSource(c) ==
  /\ At(c, "init_read")
  /\ \E st \in SourceStates :
       LET rec == call[c]
       IN IF st \in {"missing", "invalid"}
          THEN Put(c, [rec EXCEPT !.seen = st, !.pc = "done",
                                  !.res = Thrown(ParseError(st))])
          ELSE Put(c, [rec EXCEPT !.seen = st, !.pc = "init_deref"])
  /\ UNCHANGED <<sessions, index, now, uuids, maint, issued, staleBoot, api, walk>>

\* an initializeSession without the inner try: a dereference failure reaches
\* the outer catch
InitDeref_nofallback(c) ==
  /\ At(c, "init_deref")
  /\ LET rec == call[c]
         sessionId == uuidv4(uuids)
         session == [id |-> sessionId, spec |-> Document(rec.path, rec.seen),
                     filePath |-> rec.path, createdAt |-> now,
                     outputFormat |-> SessionFormat(rec)]
     IN IF rec.seen = "noderef"
        THEN /\ Put(c, [rec EXCEPT !.pc = "done",
                          !.res = Thrown(<<"Failed to parse OpenAPI spec: ",
                                           "Unsupported OpenAPI version">>)])
             /\ UNCHANGED <<sessions, uuids>>
        ELSE /\ sessions' = MapSet(sessions, sessionId, session)
             /\ Put(c, [rec EXCEPT !.id = sessionId, !.session = Some(session),
                                   !.pc = "persist_read"])
             /\ uuids' = uuids + 1
  /\ UNCHANGED <<index, now, maint, issued, staleBoot, api, walk>>

\* dereference (or the raw document), uuidv4, sessions.set, and
\* persistSession up to its read of the index
InitDeref(c) ==
  /\ At(c, "init_deref")
  /\ LET rec == call[c]
         sessionId == uuidv4(uuids)
         session == [id |-> sessionId, spec |-> Document(rec.path, rec.seen),
                     filePath |-> rec.path, createdAt |-> now,
                     outputFormat |-> SessionFormat(rec)]
     IN /\ sessions' = MapSet(sessions, sessionId, session)
        /\ Put(c, [rec EXCEPT !.id = sessionId, !.session = Some(session),
                              !.pc = "persist_read"])
  /\ uuids' = uuids + 1
  /\ UNCHANGED <<index, now, maint, issued, staleBoot, api, walk>>

\* a persistSession that pushes the row without looking for one of the id
PersistRead_push(c) ==
  /\ At(c, "persist_read")
  /\ \E ok \in BOOLEAN :
       LET rec == call[c]
           session == rec.session[1]
           persistedSessions == IF ok THEN index ELSE <<>>
           persistedSession == [id |-> session.id, filePath |-> session.filePath,
                                createdAt |-> toISOString(session.createdAt),
                                lastAccessed |-> toISOString(now),
                                outputFormat |-> session.outputFormat]
       IN Put(c, [rec EXCEPT
                    !.failed = Fail(rec, ok, "persist_read"),
                    !.buf = Append(persistedSessions, persistedSession),
                    !.pc = "persist_write"])
  /\ UNCHANGED <<sessions, index, now, uuids, maint, issued, staleBoot, api, walk>>

\* persistSession: the index is read (an unreadable index counts as empty),
\* the session's row replaces the row of the same id or is appended
PersistRead(c) ==
  /\ At(c, "persist_read")
  /\ \E ok \in BOOLEAN :
       LET rec == call[c]
           session == rec.session[1]
           persistedSessions == IF ok THEN index ELSE <<>>
           sessionIndex == findIndex(persistedSessions, session.id)
           persistedSession == [id |-> session.id, filePath |-> session.filePath,
                                createdAt |-> toISOString(session.createdAt),
                                lastAccessed |-> toISOString(now),
                                outputFormat |-> session.outputFormat]
       IN Put(c, [rec EXCEPT
                    !.failed = Fail(rec, ok, "persist_read"),
                    !.buf = IF sessionIndex > 0
                            THEN [persistedSessions EXCEPT ![sessionIndex] = persistedSession]
                            ELSE Append(persistedSessions, persistedSession),
                    !.pc = "persist_write"])
  /\ UNCHANGED <<sessions, index, now, uuids, maint, issued, staleBoot, api, walk>>

\* a persistSession whose write failure is not caught: it reaches the catch
\* of initializeSession
PersistWrite_uncaught(c) ==
  /\ At(c, "persist_write")
  /\ \E ok \in BOOLEAN :
       LET rec == call[c]
       IN /\ index' = IF ok THEN rec.buf ELSE index
          /\ Put(c, [rec EXCEPT !.failed = Fail(rec, ok, "persist_write"),
                                !.buf = <<>>, !.pc = "done",
                                !.res = IF ok THEN AfterPersist(rec)
                                        ELSE Thrown(<<"Failed to parse OpenAPI spec: ",
                                                      "EIO: i/o error, write">>)])
  /\ UNCHANGED <<sessions, now, uuids, maint, issued, staleBoot, api, walk>>

\* savePersistedSessions inside persistSession's try; initializeSession
\* returns the identifier whatever happened to the write
PersistWrite(c) ==
  /\ At(c, "persist_write")
  /\ \E ok \in BOOLEAN :
       LET rec == call[c]
       IN /\ index' = IF ok THEN rec.buf ELSE index
          /\ Put(c, [rec EXCEPT !.failed = Fail(rec, ok, "persist_write"),
                                !.buf = <<>>, !.pc = "done",
                                !.res = AfterPersist(rec)])
  /\ UNCHANGED <<sessions, now, uuids, maint, issued, staleBoot, api, walk>>

(* ------------------------------------------------------------ getSession *)
\* getSession returns s, a session or None for null: to the caller, or to the
\* operation that awaits it
GotSession(rec, s) ==
  IF rec.op = "getSession"
  THEN [rec EXCEPT !.pc = "done", !.res = Returned(s)]
  ELSE [rec EXCEPT !.session = s, !.pc = "got_session"]

\* getSession after loadSessionFromPersistence has returned: the map is
\* looked up again; a session found goes on to updateLastAccessed
AfterLoad(rec, m) ==
  IF rec.id \in DOMAIN m
  THEN [rec EXCEPT !.session = Some(m[rec.id]), !.buf = <<>>, !.pc = "ula_read"]
  ELSE GotSession([rec EXCEPT !.buf = <<>>], None)

\* where removePersistedSession returns to
AfterRemovePersisted(rec, m) ==
  IF rec.op = "removeSession"
  THEN [rec EXCEPT !.buf = <<>>, !.pc = "done", !.res = Returned(TRUE)]
  ELSE AfterLoad(rec, m)

\* the call, up to the first await: of updateLastAccessed on a hit, of
\* loadSessionFromPersistence on a miss
GetSession(c, id) ==
  /\ call[c].op = "idle"
  /\ LET rec == Begin(c, "getSession", id, "")
     IN IF id \in DOMAIN sessions
        THEN Put(c, [rec EXCEPT !.session = Some(sessions[id]), !.pc = "ula_read"])
        ELSE Put(c, [rec EXCEPT !.pc = "load_read"])
  /\ UNCHANGED <<sessions, index, now, uuids, maint, issued, staleBoot, api, walk>>

\* loadSessionFromPersistence: read of the index and find of the row
LoadRead(c) ==
  /\ At(c, "load_read")
  /\ \E ok \in BOOLEAN :
       LET rec == [call[c] EXCEPT !.failed = Fail(call[c], ok, "load_read")]
       IN IF ~ok
          THEN Put(c, [rec EXCEPT !.pc = "rm_read"])
          ELSE IF ~Has(index, rec.id)
          THEN Put(c, AfterLoad(rec, sessions))
          ELSE Put(c, [rec EXCEPT !.row = Some(RowOf(index, rec.id)),
                                  !.path = RowOf(index, rec.id).filePath,
                                  !.pc = "load_access"])
  /\ UNCHANGED <<sessions, index, now, uuids, maint, issued, staleBoot, api, walk>>

\* access(persistedSession.filePath)
LoadAccess(c) ==
  /\ At(c, "load_access")
  /\ \E st \in SourceStates :
       LET rec == call[c]
       IN IF st = "missing"
          THEN Put(c, [rec EXCEPT !.seen = st, !.pc = "rm_read"])
          ELSE Put(c, [rec EXCEPT !.pc = "load_source"])
  /\ UNCHANGED <<sessions, index, now, uuids, maint, issued, staleBoot, api, walk>>

\* readFile and parse of the source; a failure reaches the outer catch
LoadSource(c) ==
  /\ At(c, "load_source")
  /\ \E st \in SourceStates :
       LET rec == call[c]
       IN IF st \in {"missing", "invalid"}
          THEN Put(c, [rec EXCEPT !.seen = st, !.pc = "rm_read"])
          ELSE Put(c, [rec EXCEPT !.seen = st, !.pc = "load_deref"])
  /\ UNCHANGED <<sessions, index, now, uuids, maint, issued, staleBoot, api, walk>>

\* a rehydration that stamps the session with the time of the reload
LoadDeref_newDate(c) ==
  /\ At(c, "load_deref")
  /\ LET rec == call[c]
         persistedSession == rec.row[1]
         session == [id |-> rec.id, spec |-> Document(persistedSession.filePath, rec.seen),
                     filePath |-> persistedSession.filePath,
                     createdAt |-> now,
                     outputFormat |-> persistedSession.outputFormat]
         m == MapSet(sessions, rec.id, session)
     IN /\ sessions' = m
        /\ Put(c, AfterLoad(rec, m))
  /\ UNCHANGED <<index, now, uuids, maint, issued, staleBoot, api, walk>>

\* dereference (or the raw document) and sessions.set; getSession resumes
LoadDeref(c) ==
  /\ At(c, "load_deref")
  /\ LET rec == call[c]
         persistedSession == rec.row[1]
         session == [id |-> rec.id, spec |-> Document(persistedSession.filePath, rec.seen),
                     filePath |-> persistedSession.filePath,
                     createdAt |-> parseDate(persistedSession.createdAt),
                     outputFormat |-> persistedSession.outputFormat]
         m == MapSet(sessions, rec.id, session)
     IN /\ sessions' = m
        /\ Put(c, AfterLoad(rec, m))
  /\ UNCHANGED <<index, now, uuids, maint, issued, staleBoot, api, walk>>

\* an updateLastAccessed that writes the creation time back
UpdateLastAccessedRead_created(c) ==
  /\ At(c, "ula_read")
  /\ \E ok \in BOOLEAN :
       LET rec == [call[c] EXCEPT !.failed = Fail(call[c], ok, "ula_read")]
           sessionIndex == findIndex(index, rec.id)
       IN IF ok /\ sessionIndex > 0
          THEN Put(c, [rec EXCEPT
                 !.buf = [index EXCEPT ![sessionIndex].lastAccessed =
                                           index[sessionIndex].createdAt],
                 !.pc = "ula_write"])
          ELSE Put(c, GotSession(rec, rec.session))
  /\ UNCHANGED <<sessions, index, now, uuids, maint, issued, staleBoot, api, walk>>

\* an updateLastAccessed that keeps only the row it updates
UpdateLastAccessedRead_alone(c) ==
  /\ At(c, "ula_read")
  /\ \E ok \in BOOLEAN :
       LET rec == [call[c] EXCEPT !.failed = Fail(call[c], ok, "ula_read")]
           sessionIndex == findIndex(index, rec.id)
       IN IF ok /\ sessionIndex > 0
          THEN Put(c, [rec EXCEPT
                 !.buf = <<[index[sessionIndex] EXCEPT !.lastAccessed = toISOString(now)]>>,
                 !.pc = "ula_write"])
          ELSE Put(c, GotSession(rec, rec.session))
  /\ UNCHANGED <<sessions, index, now, uuids, maint, issued, staleBoot, api, walk>>

\* updateLastAccessed: read of the index; the row, if any, gets the time
UpdateLastAccessedRead(c) ==
  /\ At(c, "ula_read")
  /\ \E ok \in BOOLEAN :
       LET rec == [call[c] EXCEPT !.failed = Fail(call[c], ok, "ula_read")]
           sessionIndex == findIndex(index, rec.id)
       IN IF ok /\ sessionIndex > 0
          THEN Put(c, [rec EXCEPT
                 !.buf = [index EXCEPT ![sessionIndex].lastAccessed = toISOString(now)],
                 !.pc = "ula_write"])
          ELSE Put(c, GotSession(rec, rec.session))
  /\ UNCHANGED <<sessions, index, now, uuids, maint, issued, staleBoot, api, walk>>

\* updateLastAccessed: savePersistedSessions; getSession returns the session
UpdateLastAccessedWrite(c) ==
  /\ At(c, "ula_write")
  /\ \E ok \in BOOLEAN :
       LET rec == call[c]
       IN /\ index' = IF ok THEN rec.buf ELSE index
          /\ Put(c, GotSession([rec EXCEPT !.failed = Fail(rec, ok, "ula_write"),
                                            !.buf = <<>>], rec.session))
  /\ UNCHANGED <<sessions, now, uuids, maint, issued, staleBoot, api, walk>>

(* --------------------------------------------------------- removeSession *)
\* a removeSession that looks the session up and leaves it in the map
removeSession_has(c, id, prev) ==
  /\ LET rec == [Begin(c, "removeSession", id, "") EXCEPT !.prev = prev]
     IN IF id \in DOMAIN sessions
        THEN Put(c, [rec EXCEPT !.pc = "rm_read"])
        ELSE Put(c, [rec EXCEPT !.pc = "done", !.res = Returned(FALSE)])
  /\ UNCHANGED sessions

\* removeSession up to its first await: sessions.delete, and
\* removePersistedSession only when the map held the id
removeSession(c, id, prev) ==
  /\ LET rec == [Begin(c, "removeSession", id, "") EXCEPT !.prev = prev]
     IN IF id \in DOMAIN sessions
        THEN Put(c, [rec EXCEPT !.pc = "rm_read"])
        ELSE Put(c, [rec EXCEPT !.pc = "done", !.res = Returned(FALSE)])
  /\ sessions' = MapDelete(sessions, id)

RemoveSession(c, id) ==
  /\ call[c].op = "idle"
  /\ removeSession(c, id, None)
  /\ UNCHANGED <<index, now, uuids, maint, issued, staleBoot, api, walk>>

\* the caller that has just got the result of removeSession(id) calls
\* removeSession(id) again
RemoveSessionAgain(c) ==
  /\ At(c, "done")
  /\ call[c].op = "removeSession"
  /\ call[c].prev = None
  /\ removeSession(c, call[c].id,
                   Some([value |-> call[c].res[1].value,
                         resident |-> call[c].id \in DOMAIN call[c].pre[1].sessions]))
  /\ UNCHANGED <<index, now, uuids, maint, issued, staleBoot, api, walk>>

\* a removePersistedSession whose filter keeps nothing
RemovePersistedRead_all(c) ==
  /\ At(c, "rm_read")
  /\ \E ok \in BOOLEAN :
       LET rec == [call[c] EXCEPT !.failed = Fail(call[c], ok, "rm_read")]
       IN IF ok
          THEN Put(c, [rec EXCEPT !.buf = <<>>, !.pc = "rm_write"])
          ELSE Put(c, AfterRemovePersisted(rec, sessions))
  /\ UNCHANGED <<sessions, index, now, uuids, maint, issued, staleBoot, api, walk>>

\* removePersistedSession: read of the index and filter
RemovePersistedRead(c) ==
  /\ At(c, "rm_read")
  /\ \E ok \in BOOLEAN :
       LET rec == [call[c] EXCEPT !.failed = Fail(call[c], ok, "rm_read")]
       IN IF ok
          THEN Put(c, [rec EXCEPT !.buf = Others(index, rec.id), !.pc = "rm_write"])
          ELSE Put(c, AfterRemovePersisted(rec, sessions))
  /\ UNCHANGED <<sessions, index, now, uuids, maint, issued, staleBoot, api, walk>>

\* removePersistedSession: savePersistedSessions
RemovePersistedWrite(c) ==
  /\ At(c, "rm_write")
  /\ \E ok \in BOOLEAN :
       LET rec == [call[c] EXCEPT !.failed = Fail(call[c], ok, "rm_write")]
       IN /\ index' = IF ok THEN rec.buf ELSE index
          /\ Put(c, AfterRemovePersisted(rec, sessions))
  /\ UNCHANGED <<sessions, now, uuids, maint, issued, staleBoot, api, walk>>

\* the caller takes the result
Return(c) ==
  /\ At(c, "done")
  /\ LET rec == call[c]
     IN issued' = IF rec.op = "initializeSession" /\ ~rec.res[1].threw
                     THEN issued \cup {rec.res[1].value} ELSE issued
  /\ Put(c, Idle)
  /\ UNCHANGED <<sessions, index, now, uuids, maint, staleBoot, api, walk>>

(* ------------------------------------------------- queries and tool calls *)
Formats == {"json", "compact", "structured", "markdown"}
\* getSession up to its first await: of updateLastAccessed on a hit, of
\* loadSessionFromPersistence on a miss
Resolve(rec) ==
  IF rec.id \in DOMAIN sessions
  THEN [rec EXCEPT !.session = Some(sessions[rec.id]), !.pc = "ula_read"]
  ELSE [rec EXCEPT !.session = None, !.pc = "load_read"]

\* an operation that starts with `await this.getSession(sessionId)`
Query(c, op, id, args) ==
  /\ call[c].op = "idle"
  /\ Put(c, Resolve([Begin(c, op, id, "") EXCEPT !.args = args]))
  /\ UNCHANGED <<sessions, index, now, uuids, maint, issued, staleBoot, api, walk>>

ListEndpoints(c, id, tags, methods) ==
  Query(c, "listEndpoints", id, [NoArgs EXCEPT !.tags = tags, !.methods = methods])
GetEndpointDetails(c, id, path, method, options) ==
  Query(c, "getEndpointDetails", id,
        [NoArgs EXCEPT !.path = path, !.method = method, !.options = options])
GetTags(c, id) == Query(c, "getTags", id, NoArgs)
GetComponents(c, id, componentType) ==
  Query(c, "getComponents", id, [NoArgs EXCEPT !.componentType = componentType])
GetSessionInfo(c, id) == Query(c, "getSessionInfo", id, NoArgs)

Queries ==
  {"getSessionInfo", "listEndpoints", "getEndpointDetails", "getTags", "getComponents"}

\* what the query returns once getSession has returned a session
Answer(rec, spec) ==
  CASE rec.op = "listEndpoints" ->
         Returned(listEndpoints(spec, rec.args.tags, rec.args.methods))
    [] rec.op = "getEndpointDetails" ->
         getEndpointDetails(spec, rec.args.path, rec.args.method, rec.args.options)
    [] rec.op = "getTags" -> Returned(getTags(spec))
    [] rec.op = "getComponents" -> Returned(getComponents(spec, rec.args.componentType))
    [] rec.op = "getSessionInfo" -> Returned(Some(getSessionInfo(spec)))
\* what the query does without a session: getSessionInfo returns null, the
\* others throw
NoSession(rec) ==
  IF rec.op = "getSessionInfo" THEN Returned(None)
  ELSE Thrown(<<"Session not found">>)

\* the query resumes after getSession: `if (!session)`, then the answer
\* computed from session.spec
AnswerQuery(c) ==
  /\ At(c, "got_session")
  /\ call[c].op \in Queries
  /\ LET rec == call[c]
     IN Put(c, [rec EXCEPT !.pc = "done",
                  !.res = IF rec.session = None THEN NoSession(rec)
                          ELSE Answer(rec, api)])
  /\ UNCHANGED <<sessions, index, now, uuids, maint, issued, staleBoot, api, walk>>

\* the get_endpoint_details tool: the flags the request leaves out take the
\* defaults of the destructuring
HandlerOptions_asGiven(options) == options
HandlerOptions(options) ==
  LET given(flag, default) == IF flag = None THEN Some(default) ELSE flag
  IN QueryOptions(given(options.includeParameters, TRUE),
                  given(options.includeRequestBody, TRUE),
                  given(options.includeResponses, TRUE),
                  given(options.includeSecurity, FALSE),
                  given(options.includeExamples, FALSE),
                  given(options.includeSchemas, TRUE),
                  options.responseStatusCodes)

get_endpoint_details(c, id, path, method, options) ==
  Query(c, "get_endpoint_details", id,
        [NoArgs EXCEPT !.path = path, !.method = method, !.options = options])

\* the tool after manager.getEndpointDetails: a failure and a null reach the
\* catch of the handler; details go on to getSessionOutputFormat
ToolDetails(c) ==
  /\ At(c, "got_session")
  /\ call[c].op = "get_endpoint_details"
  /\ call[c].held = None
  /\ LET rec == call[c]
         details == getEndpointDetails(api, rec.args.path, rec.args.method,
                                       HandlerOptions(rec.args.options))
     IN IF rec.session = None
        THEN Put(c, [rec EXCEPT !.pc = "done", !.res = Thrown(<<"Session not found">>)])
        ELSE IF details[1].threw
        THEN Put(c, [rec EXCEPT !.pc = "done", !.res = details])
        ELSE IF details[1].value = None
        THEN Put(c, [rec EXCEPT !.pc = "done",
                       !.res = Thrown(<<"Endpoint not found: ",
                                        toUpperCase(rec.args.method), " ",
                                        rec.args.path>>)])
        ELSE Put(c, Resolve([rec EXCEPT !.held = details[1].value]))
  /\ UNCHANGED <<sessions, index, now, uuids, maint, issued, staleBoot, api, walk>>

\* the tool after getSessionOutputFormat: the details go to the transformer
\* of the session's format, of 'compact' when there is none
ToolRender(c) ==
  /\ At(c, "got_session")
  /\ call[c].op = "get_endpoint_details"
  /\ call[c].held # None
  /\ LET rec == call[c]
         format == IF rec.session = None THEN "compact"
                   ELSE rec.session[1].outputFormat
     IN Put(c, [rec EXCEPT !.pc = "done",
                  !.res = Returned([format |-> format, data |-> rec.held[1]])])
  /\ UNCHANGED <<sessions, index, now, uuids, maint, issued, staleBoot, api, walk>>

(* ----------------------------------------------------------- output format *)
\* the set_output_format tool: manager.setSessionOutputFormat(id, format)
set_output_format(c, id, outputFormat) ==
  Query(c, "set_output_format", id, [NoArgs EXCEPT !.outputFormat = outputFormat])

\* a setSessionOutputFormat that persists the session as it was
SetFormat_stale(c) ==
  /\ At(c, "got_session")
  /\ call[c].op = "set_output_format"
  /\ LET rec == call[c]
         session == [rec.session[1] EXCEPT !.outputFormat = rec.args.outputFormat]
     IN IF rec.session = None
        THEN /\ Put(c, [rec EXCEPT !.pc = "done",
                          !.res = Thrown(<<"Session not found">>)])
             /\ UNCHANGED sessions
        ELSE /\ sessions' = IF rec.id \in DOMAIN sessions
                            THEN MapSet(sessions, rec.id, session) ELSE sessions
             /\ Put(c, [rec EXCEPT !.pc = "persist_read"])
  /\ UNCHANGED <<index, now, uuids, maint, issued, staleBoot, api, walk>>

\* setSessionOutputFormat after getSession: no session is `false`, which the
\* tool turns into 'Session not found'; a session gets the format and is
\* persisted
SetFormat(c) ==
  /\ At(c, "got_session")
  /\ call[c].op = "set_output_format"
  /\ LET rec == call[c]
         session == [rec.session[1] EXCEPT !.outputFormat = rec.args.outputFormat]
     IN IF rec.session = None
        THEN /\ Put(c, [rec EXCEPT !.pc = "done",
                          !.res = Thrown(<<"Session not found">>)])
             /\ UNCHANGED sessions
        ELSE /\ sessions' = IF rec.id \in DOMAIN sessions
                            THEN MapSet(sessions, rec.id, session) ELSE sessions
             /\ Put(c, [rec EXCEPT !.session = Some(session), !.pc = "persist_read"])
  /\ UNCHANGED <<index, now, uuids, maint, issued, staleBoot, api, walk>>

\* getSessionOutputFormat(id)
GetSessionOutputFormat(c, id) == Query(c, "getSessionOutputFormat", id, NoArgs)

\* the caller that has just got the answer of set_output_format(id, f) asks
\* for the format of id
GetFormatAfterSet(c) ==
  /\ At(c, "done")
  /\ call[c].op = "set_output_format"
  /\ LET rec == call[c]
     IN Put(c, Resolve([Begin(c, "getSessionOutputFormat", rec.id, "") EXCEPT
                          !.prev = Some([outputFormat |-> rec.args.outputFormat,
                                         threw |-> rec.res[1].threw])]))
  /\ UNCHANGED <<sessions, index, now, uuids, maint, issued, staleBoot, api, walk>>

\* getSessionOutputFormat after getSession: the session's format, null for
\* no session
GetFormat(c) ==
  /\ At(c, "got_session")
  /\ call[c].op = "getSessionOutputFormat"
  /\ LET rec == call[c]
     IN Put(c, [rec EXCEPT !.pc = "done",
                  !.res = Returned(IF rec.session = None THEN None
                                   ELSE Some(rec.session[1].outputFormat))])
  /\ UNCHANGED <<sessions, index, now, uuids, maint, issued, staleBoot, api, walk>>

(* -------------------------------------------------------------- tool shell *)
\* the tools whose case starts with an operation that awaits getSession
QueryTools == {"get_session_info", "list_endpoints", "get_tags", "get_components"}
SessionTools ==
  QueryTools \cup {"get_endpoint_details", "set_output_format", "generate_documentation"}

\* the handler of a tool request, up to its first await; a name no case has
\* reaches `default: throw`. The request comes after the reply to the
\* caller's previous one
CallTool(c, name, id, args) ==
  /\ call[c].op = "idle"
  /\ LET rec == [Begin(c, name, id, "") EXCEPT !.args = args, !.prev = call[c].prev]
     IN IF name \in SessionTools THEN Put(c, Resolve(rec))
        ELSE Put(c, [rec EXCEPT !.pc = "done",
                       !.res = Thrown(<<"Unknown tool: ", name>>)])
  /\ UNCHANGED <<sessions, index, now, uuids, maint, issued, staleBoot, api, walk>>

\* the initialize_session tool: manager.initializeSession(source, outputFormat)
initialize_session(c, source, outputFormat) ==
  /\ call[c].op = "idle"
  /\ uuids < MaxIds
  /\ Put(c, [Begin(c, "initializeSession", 0, source) EXCEPT
               !.pc = "init_read", !.prev = call[c].prev,
               !.args = [NoArgs EXCEPT !.outputFormat = outputFormat]])
  /\ UNCHANGED <<sessions, index, now, uuids, maint, issued, staleBoot, api, walk>>

\* the remove_session tool: manager.removeSession(sessionId)
remove_session(c, id) ==
  /\ call[c].op = "idle"
  /\ removeSession(c, id, call[c].prev)
  /\ UNCHANGED <<index, now, uuids, maint, issued, staleBoot, api, walk>>

\* what the manager operation of a query tool returns for a session
ToolAnswer(rec, spec) ==
  CASE rec.op = "get_session_info" -> getSessionInfo(spec)
    [] rec.op = "list_endpoints" -> listEndpoints(spec, rec.args.tags, rec.args.methods)
    [] rec.op = "get_tags" -> getTags(spec)
    [] rec.op = "get_components" -> getComponents(spec, rec.args.componentType)

\* a query tool after its manager operation: no session is 'Session not
\* found' for the catch; an answer goes on to getSessionOutputFormat
ToolQuery(c) ==
  /\ At(c, "got_session")
  /\ call[c].op \in QueryTools
  /\ call[c].held = None
  /\ LET rec == call[c]
     IN IF rec.session = None
        THEN Put(c, [rec EXCEPT !.pc = "done", !.res = Thrown(<<"Session not found">>)])
        ELSE Put(c, Resolve([rec EXCEPT !.held = Some(ToolAnswer(rec, api))]))
  /\ UNCHANGED <<sessions, index, now, uuids, maint, issued, staleBoot, api, walk>>

\* a query tool after getSessionOutputFormat: the answer goes to the
\* transformer of the session's format, of 'compact' when there is none
ToolFormat(c) ==
  /\ At(c, "got_session")
  /\ call[c].op \in QueryTools
  /\ call[c].held # None
  /\ LET rec == call[c]
         format == IF rec.session = None THEN "compact"
                   ELSE rec.session[1].outputFormat
     IN Put(c, [rec EXCEPT !.pc = "done",
                  !.res = Returned([format |-> format, data |-> rec.held[1]])])
  /\ UNCHANGED <<sessions, index, now, uuids, maint, issued, staleBoot, api, walk>>

\* generate_documentation: getSessionInfo, then the queries the content is
\* made of (each awaits getSession; they are one round here), then mkdir and
\* writeFile, which succeed or raise
Written == <<"petstore-documentation.md">>
WriteError == <<"EACCES: permission denied">>
GenerateDocumentation(c) ==
  /\ At(c, "got_session")
  /\ call[c].op = "generate_documentation"
  /\ LET rec == call[c]
     IN IF rec.session = None
        THEN Put(c, [rec EXCEPT !.pc = "done", !.res = Thrown(<<"Session not found">>)])
        ELSE IF rec.held = None
        THEN Put(c, Resolve([rec EXCEPT !.held = Some(getSessionInfo(api))]))
        ELSE \E ok \in BOOLEAN :
               Put(c, [rec EXCEPT !.pc = "done",
                         !.res = IF ok THEN Returned(Written) ELSE Thrown(WriteError)])
  /\ UNCHANGED <<sessions, index, now, uuids, maint, issued, staleBoot, api, walk>>

\* what the handler returns for the outcome of its case: the text of the
\* case's transformer, and from the catch the compact error text flagged
\* isError
ToolResult_unflagged(rec) ==
  [isError |-> FALSE,
   text |-> transformError(createTransformer("compact"), rec.res[1].message)]
ToolResult(rec) ==
  LET r == rec.res[1]
      compact == createTransformer("compact")
  IN IF r.threw
     THEN [isError |-> TRUE, text |-> transformError(compact, r.message)]
     ELSE [isError |-> FALSE, text |->
       CASE rec.op = "initializeSession" ->
              transformSuccess(
                createTransformer(IF rec.args.outputFormat # ""
                                  THEN rec.args.outputFormat ELSE "compact"),
                TRUE, Some(ToString(r.value)),
                <<"Session initialized successfully for ", rec.path>>)
         [] rec.op = "set_output_format" ->
              transformSuccess(createTransformer(rec.args.outputFormat), TRUE, None,
                               <<"Output format changed to ", rec.args.outputFormat>>)
         [] rec.op = "removeSession" ->
              transformSuccess(compact, r.value, None,
                               <<IF r.value THEN "Session removed successfully"
                                 ELSE "Session not found">>)
         [] rec.op = "generate_documentation" ->
              transformSuccess(compact, TRUE, None,
                               <<"Documentation generated successfully at: ">> \o r.value)
         [] rec.op = "get_session_info" ->
              transformSessionInfo(createTransformer(r.value.format), r.value.data)
         [] rec.op = "list_endpoints" ->
              transformEndpointsList(createTransformer(r.value.format), r.value.data)
         [] rec.op = "get_endpoint_details" ->
              transformEndpointDetails(createTransformer(r.value.format), r.value.data)
         [] rec.op = "get_tags" ->
              transformTags(createTransformer(r.value.format), r.value.data)
         [] rec.op = "get_components" ->
              transformComponents(createTransformer(r.value.format), r.value.data,
                                  rec.args.componentType # None)]

\* the handler returns: from its case or from its catch
Reply(c) ==
  /\ At(c, "done")
  /\ Put(c, [call[c] EXCEPT !.pc = "replied", !.reply = Some(ToolResult(call[c]))])
  /\ UNCHANGED <<sessions, index, now, uuids, maint, issued, staleBoot, api, walk>>

\* the caller takes the reply
Receive(c) ==
  /\ At(c, "replied")
  /\ LET rec == call[c]
     IN /\ issued' = IF rec.op = "initializeSession" /\ ~rec.res[1].threw
                     THEN issued \cup {rec.res[1].value} ELSE issued
        /\ Put(c, [Idle EXCEPT !.prev = Some([isError |-> rec.reply[1].isError])])
  /\ UNCHANGED <<sessions, index, now, uuids, maint, staleBoot, api, walk>>

(* ------------------------------------------- startup maintenance, restart *)
Stale(row, t) == ~(t - parseDate(row.lastAccessed) < StaleDays)
validSessions(rows, t) == LET keep(r) == ~Stale(r, t) IN SelectSeq(rows, keep)

\* loadPersistedSessions: mkdir, access, read of the index, filter
LoadPersistedRead ==
  /\ maint.pc = "m_read"
  /\ \E ok \in BOOLEAN :
       IF ok /\ Len(validSessions(index, now)) # Len(index)
       THEN maint' = [pc |-> "m_write", buf |-> validSessions(index, now), failed |-> FALSE]
       ELSE maint' = [pc |-> "done", buf |-> <<>>, failed |-> ~ok]
  /\ UNCHANGED <<sessions, index, now, uuids, call, issued, staleBoot, api, walk>>

\* loadPersistedSessions: savePersistedSessions(validSessions)
LoadPersistedWrite ==
  /\ maint.pc = "m_write"
  /\ \E ok \in BOOLEAN :
       /\ index' = IF ok THEN maint.buf ELSE index
       /\ maint' = [pc |-> "done", buf |-> <<>>, failed |-> ~ok]
  /\ UNCHANGED <<sessions, now, uuids, call, issued, staleBoot, api, walk>>

\* the process ends and a new one constructs the manager: the map is empty,
\* the index file is kept, loadPersistedSessions() is started and not awaited
Restart ==
  /\ sessions' = <<>>
  /\ call' = [c \in Callers |-> Idle]
  /\ maint' = [pc |-> "m_read", buf |-> <<>>, failed |-> FALSE]
  /\ staleBoot' = {index[i].id : i \in {j \in 1..Len(index) : Stale(index[j], now)}}
  /\ UNCHANGED <<index, now, uuids, issued, api, walk>>

(* -------------------------------------------------------- schema formatter *)
\* formatInlineSchema (Markdown) and generateHtmlInlineSchema (HTML).  walk
\* holds the formatter call that is running: its schema and depth, the
\* number of formatter calls in progress, the property schemas the loop of
\* the depth-0 call has still to expand, and what has been emitted.  A call
\* made as `content += await f(...); return content` has nothing left to do
\* when its callee returns.
Formatters == {"markdown", "html"}
Emitted(what, schema, depth) == [what |-> what, schema |-> schema, depth |-> depth]
Emit(w, what) ==
  [w EXCEPT !.visits = w.visits \cup {Emitted(what, w.schema[1], w.depth)}]
\* one more formatter call in progress
Called(n) == IF n < MaxCalls THEN n + 1 ELSE MaxCalls
\* the depth at which the target of a resolved $ref is formatted
RefDepth(kind, depth) == IF kind = "markdown" THEN depth ELSE depth + 1

\* the schemas the loop under `if (depth === 0)` formats: the items of a
\* property that is an array of $ref, a property that is a $ref
RECURSIVE expanded(_)
expanded(properties) ==
  IF properties = <<>> THEN <<>>
  ELSE LET propSchema == Head(properties)[2]
           rest == expanded(Tail(properties))
       IN IF /\ propSchema.type = Some("array")
             /\ propSchema.items # None
             /\ propSchema.items[1].ref # None
          THEN <<propSchema.items[1]>> \o rest
          ELSE IF propSchema.ref # None THEN <<propSchema>> \o rest
          ELSE rest

\* the running call returns, and with it the calls that only awaited it: the
\* loop of the depth-0 call makes its next call, or the walk is over
Returns(w) ==
  IF w.pending = <<>>
  THEN [w EXCEPT !.pc = "done", !.schema = None, !.calls = 0]
  ELSE [w EXCEPT !.pc = "visit",
                 !.schema = Some(Head(w.pending)[1]),
                 !.depth = Head(w.pending)[2],
                 !.calls = Called(w.base),
                 !.pending = Tail(w.pending)]

\* the call from `if (schema.properties)` on: the table, and at depth 0 the
\* expansions; the type line; the best-effort type
Plain(w) ==
  LET schema == w.schema[1]
      children == expanded(schema.properties[1])
  IN IF schema.properties # None
     THEN IF w.depth = 0
          THEN Returns([Emit(w, "table") EXCEPT
                          !.base = w.calls,
                          !.pending = [i \in 1..Len(children) |->
                                         <<children[i], w.depth + 1>>]])
          ELSE Returns(Emit(w, "table"))
     ELSE IF schema.type # None THEN Returns(Emit(w, "type"))
     ELSE Returns(Emit(w, "schema"))

\* `if (schema.$ref)` and `if (refName)`
Resolves(w) ==
  /\ w.schema # None
  /\ w.depth <= 3
  /\ ~(w.schema[1].type = Some("array") /\ w.schema[1].items # None)
  /\ w.schema[1].ref # None
  /\ Last(w.schema[1].ref[1]) # ""

\* the call up to its return or to the call it makes, when it does not
\* resolve a $ref
Visit(w) ==
  IF w.schema = None THEN Returns(w)
  ELSE IF w.depth > 3 THEN Returns(Emit(w, "max depth reached"))
  ELSE IF w.schema[1].type = Some("array") /\ w.schema[1].items # None
  THEN [Emit(w, "array") EXCEPT !.schema = w.schema[1].items,
                                !.depth = w.depth + 1,
                                !.calls = Called(w.calls)]
  ELSE Plain(w)

\* a caller formats a schema: formatInlineSchema(sessionId, schema, 0)
StartWalk(c, kind, id, schema) ==
  /\ walk.pc = "idle"
  /\ call[c].op = "idle"
  /\ walk' = [NoWalk EXCEPT !.pc = "visit", !.caller = c, !.kind = kind,
                            !.id = id, !.schema = Some(schema), !.calls = 1,
                            !.entry = Some(schema)]
  /\ UNCHANGED <<sessions, index, now, uuids, call, maint, issued, staleBoot, api>>

\* the schema that has been formatted is formatted again for the other
\* output format of generateDocumentation
WalkAgain(c) ==
  /\ walk.pc = "done"
  /\ walk.caller = c
  /\ walk.prev = None
  /\ walk' = [NoWalk EXCEPT
                !.pc = "visit", !.caller = c, !.id = walk.id,
                !.kind = IF walk.kind = "markdown" THEN "html" ELSE "markdown",
                !.schema = walk.entry, !.entry = walk.entry, !.calls = 1,
                !.prev = Some([kind |-> walk.kind, visits |-> walk.visits])]
  /\ UNCHANGED <<sessions, index, now, uuids, call, maint, issued, staleBoot, api>>

\* the running call, up to `await this.manager.getComponents(sessionId,
\* 'schemas')` when it has a $ref to resolve
WalkVisit(c) ==
  /\ walk.pc = "visit"
  /\ walk.caller = c
  /\ IF Resolves(walk)
     THEN /\ walk' = [walk EXCEPT !.pc = "resolve",
                                  !.refName = Last(walk.schema[1].ref[1])]
          /\ Put(c, Resolve([Begin(c, "getComponents", walk.id, "") EXCEPT
                               !.args = [NoArgs EXCEPT
                                           !.componentType = Some("schemas")]]))
     ELSE /\ walk' = Visit(walk)
          /\ UNCHANGED call
  /\ UNCHANGED <<sessions, index, now, uuids, maint, issued, staleBoot, api>>

\* getComponents has answered: the catch, the call on the referenced schema,
\* or the rest of the function when the name is not among the components
WalkResume(c) ==
  /\ walk.pc = "resolve"
  /\ walk.caller = c
  /\ At(c, "done")
  /\ call[c].op = "getComponents"
  /\ LET res == call[c].res[1]
         referencedSchema == Get(res.value, walk.refName)
         w == [walk EXCEPT !.pc = "visit", !.refName = ""]
     IN walk' = IF res.threw THEN Returns(Emit(w, "name"))
                ELSE IF referencedSchema # None
                THEN [Emit(w, "ref") EXCEPT
                        !.schema = referencedSchema,
                        !.depth = RefDepth(w.kind, w.depth),
                        !.calls = Called(w.calls)]
                ELSE Plain(w)
  /\ Put(c, Idle)
  /\ UNCHANGED <<sessions, index, now, uuids, maint, issued, staleBoot, api>>

(* ------------------------------------------------------------ environment *)
Tick ==
  /\ \E t \in Days : t > now /\ now' = t
  /\ UNCHANGED <<sessions, index, uuids, call, maint, issued, staleBoot, api, walk>>

(* -------------------------------------------------------- specifications *)
AllIdle == \A c \in Callers : call[c].op = "idle"
Quiet == AllIdle /\ maint.pc = "done"

Step(c) ==
  \/ InitReadSource(c) \/ InitDeref(c) \/ PersistRead(c) \/ PersistWrite(c)
  \/ LoadRead(c) \/ LoadAccess(c) \/ LoadSource(c) \/ LoadDeref(c)
  \/ UpdateLastAccessedRead(c) \/ UpdateLastAccessedWrite(c)
  \/ RemovePersistedRead(c) \/ RemovePersistedWrite(c)
  \/ RemoveSessionAgain(c)
  \/ Return(c)

\* operations one at a time: a call starts when nothing else is in flight,
\* the startup pass included
Next ==
  \/ \E p \in Paths : Quiet /\ InitializeSession(1, p)
  \/ \E i \in Ids : Quiet /\ GetSession(1, i)
  \/ \E i \in Ids : Quiet /\ RemoveSession(1, i)
  \/ Step(1)
  \/ LoadPersistedRead
  \/ LoadPersistedWrite
  \/ AllIdle /\ Restart
  \/ Tick

Spec == Init /\ [][Next]_vars

\* the constructor does not await the startup pass: a call may start while
\* the pass is between its read and its write of the index
NextBoot ==
  \/ \E p \in Paths : AllIdle /\ InitializeSession(1, p)
  \/ \E i \in Ids : AllIdle /\ GetSession(1, i)
  \/ \E i \in Ids : AllIdle /\ RemoveSession(1, i)
  \/ Step(1)
  \/ LoadPersistedRead
  \/ LoadPersistedWrite
  \/ AllIdle /\ Restart
  \/ Tick

SpecBoot == Init /\ [][NextBoot]_vars

\* the output format of sessions: sessions are initialized, their format is
\* set and read, the process restarts; one session is initialized and the
\* clock stands still
StepFormat(c) ==
  \/ InitReadSource(c) \/ InitDeref(c) \/ PersistRead(c) \/ PersistWrite(c)
  \/ LoadRead(c) \/ LoadAccess(c) \/ LoadSource(c) \/ LoadDeref(c)
  \/ UpdateLastAccessedRead(c) \/ UpdateLastAccessedWrite(c)
  \/ RemovePersistedRead(c) \/ RemovePersistedWrite(c)
  \/ SetFormat(c) \/ GetFormat(c) \/ GetFormatAfterSet(c)
  \/ Return(c)

NextFormat ==
  \/ \E p \in Paths : Quiet /\ uuids = 0 /\ InitializeSession(1, p)
  \/ \E i \in Ids, f \in Formats : Quiet /\ set_output_format(1, i, f)
  \/ \E i \in Ids : Quiet /\ GetSessionOutputFormat(1, i)
  \/ StepFormat(1)
  \/ LoadPersistedRead
  \/ AllIdle /\ Restart

SpecFormat == Init /\ [][NextFormat]_vars

\* the queries: one session is resident, its source holds one of the
\* documents, and queries and get_endpoint_details calls are made one at a
\* time on its id and on ids that resolve to nothing
TagFilters == {None, Some(<<>>), Some(<<"pets">>), Some(<<"admin", "store">>)}
MethodFilters ==
  {None, Some(<<>>), Some(<<"GET">>), Some(<<"Post", "get">>), Some(<<"bogus">>)}
MethodNames == {"get", "POST", "delete", "parameters"}
AllFlags(b) ==
  QueryOptions(Some(b), Some(b), Some(b), Some(b), Some(b), Some(b), None)
Defaults ==
  QueryOptions(Some(TRUE), Some(TRUE), Some(TRUE), Some(FALSE), Some(FALSE),
               Some(TRUE), None)
OptionBundles ==
  { NoOptions, AllFlags(FALSE), AllFlags(TRUE), Defaults,
    [Defaults EXCEPT !.includeSchemas = Some(FALSE)],
    [Defaults EXCEPT !.responseStatusCodes = Some(<<"default">>)] }
RequestFlags == {NoOptions, [NoOptions EXCEPT !.includeSecurity = Some(TRUE)]}
ComponentTypes == {None, Some("schemas"), Some("responses")}

InitQuery ==
  LET session == [id |-> 1, spec |-> Document("petstore.json", "ok"),
                  filePath |-> "petstore.json", createdAt |-> 0,
                  outputFormat |-> getDefaultOutputFormat]
  IN /\ api \in Specifications
     /\ sessions = MapSet(<<>>, 1, session)
     /\ index = <<[id |-> 1, filePath |-> "petstore.json",
                   createdAt |-> toISOString(0), lastAccessed |-> toISOString(0),
                   outputFormat |-> getDefaultOutputFormat]>>
     /\ now = 0
     /\ uuids = 1
     /\ call = [c \in Callers |-> Idle]
     /\ maint = [pc |-> "done", buf |-> <<>>, failed |-> FALSE]
     /\ issued = {1}
     /\ staleBoot = {}
     /\ walk = NoWalk

StepQuery(c) ==
  \/ LoadRead(c) \/ RemovePersistedRead(c) \/ RemovePersistedWrite(c)
  \/ UpdateLastAccessedRead(c) \/ UpdateLastAccessedWrite(c)
  \/ AnswerQuery(c) \/ ToolDetails(c) \/ ToolRender(c)
  \/ Return(c)

NextQuery ==
  \/ \E i \in Ids, tags \in TagFilters, methods \in MethodFilters :
        ListEndpoints(1, i, tags, methods)
  \/ \E i \in Ids, path \in PathNames, method \in MethodNames, options \in OptionBundles :
        GetEndpointDetails(1, i, path, method, options)
  \/ \E i \in Ids : GetTags(1, i)
  \/ \E i \in Ids, componentType \in ComponentTypes : GetComponents(1, i, componentType)
  \/ \E i \in Ids, path \in PathNames, method \in MethodNames, options \in RequestFlags :
        get_endpoint_details(1, i, path, method, options)
  \/ StepQuery(1)

SpecQuery == InitQuery /\ [][NextQuery]_vars

\* the tool shell: one session is resident, its source holds a document with
\* operations, tags and components or one with none, and tool requests are
\* made one at a time, each after the reply to the one before
FormatNames == Formats \cup {"yaml"}
ToolDocuments ==
  { Api(Some(<<<<"/pets", PathItem(<<<<"get", ListOperation>>,
                                     <<"delete", EmptyContentOperation>>>>)>>>>),
        Some(<<[name |-> "pets"]>>), Some(Components), None),
    Api(None, None, None, None) }
ToolRequests ==
  { <<"list_endpoints", NoArgs>>,
    <<"list_endpoints", [NoArgs EXCEPT !.methods = Some(<<"put">>)]>>,
    <<"get_endpoint_details", [NoArgs EXCEPT !.path = "/pets", !.method = "get"]>>,
    <<"get_endpoint_details", [NoArgs EXCEPT !.path = "/pets", !.method = "delete"]>>,
    <<"get_tags", NoArgs>>,
    <<"get_session_info", NoArgs>>,
    <<"get_components", NoArgs>>,
    <<"get_components", [NoArgs EXCEPT !.componentType = Some("schemas")]>>,
    <<"generate_documentation", NoArgs>>,
    <<"restart_server", NoArgs>> }
   \cup { <<"set_output_format", [NoArgs EXCEPT !.outputFormat = f]>> : f \in FormatNames }

InitTool ==
  LET session == [id |-> 1, spec |-> Document("petstore.json", "ok"),
                  filePath |-> "petstore.json", createdAt |-> 0,
                  outputFormat |-> getDefaultOutputFormat]
  IN /\ api \in ToolDocuments
     /\ sessions = MapSet(<<>>, 1, session)
     /\ index = <<[id |-> 1, filePath |-> "petstore.json",
                   createdAt |-> toISOString(0), lastAccessed |-> toISOString(0),
                   outputFormat |-> getDefaultOutputFormat]>>
     /\ now = 0
     /\ uuids = 1
     /\ call = [c \in Callers |-> Idle]
     /\ maint = [pc |-> "done", buf |-> <<>>, failed |-> FALSE]
     /\ issued = {1}
     /\ staleBoot = {}
     /\ walk = NoWalk

StepTool(c) ==
  \/ InitReadSource(c) \/ InitDeref(c) \/ PersistRead(c) \/ PersistWrite(c)
  \/ LoadRead(c) \/ LoadAccess(c) \/ LoadSource(c) \/ LoadDeref(c)
  \/ UpdateLastAccessedRead(c) \/ UpdateLastAccessedWrite(c)
  \/ RemovePersistedRead(c) \/ RemovePersistedWrite(c)
  \/ ToolQuery(c) \/ ToolFormat(c) \/ ToolDetails(c) \/ ToolRender(c)
  \/ SetFormat(c) \/ GenerateDocumentation(c)
  \/ Reply(c) \/ Receive(c)

NextTool ==
  \/ \E request \in ToolRequests : CallTool(1, request[1], 1, request[2])
  \/ \E p \in Paths, f \in {"", "yaml"} : initialize_session(1, p, f)
  \/ \E i \in Ids : remove_session(1, i)
  \/ StepTool(1)

SpecTool == InitTool /\ [][NextTool]_vars

\* overlapping calls: a process has just started on an index that holds the
\* row of a session last accessed StaleDays or more ago, the startup pass
\* is pending, and two callers start operations while the other's, or the
\* pass, is suspended at an await: one calls getSession for the session of
\* the index, the other initializeSession and removeSession
InitRace ==
  /\ api = Petstore
  /\ sessions = <<>>
  /\ index = <<[id |-> 1, filePath |-> "petstore.json",
                createdAt |-> toISOString(0), lastAccessed |-> toISOString(0),
                outputFormat |-> getDefaultOutputFormat]>>
  /\ now = MaxDay
  /\ uuids = 1
  /\ call = [c \in Callers |-> Idle]
  /\ maint = [pc |-> "m_read", buf |-> <<>>, failed |-> FALSE]
  /\ issued = {1}
  /\ staleBoot = {1}
  /\ walk = NoWalk

StepRace(c) ==
  \/ InitReadSource(c) \/ InitDeref(c) \/ PersistRead(c) \/ PersistWrite(c)
  \/ LoadRead(c) \/ LoadAccess(c) \/ LoadSource(c) \/ LoadDeref(c)
  \/ UpdateLastAccessedRead(c) \/ UpdateLastAccessedWrite(c)
  \/ RemovePersistedRead(c) \/ RemovePersistedWrite(c)
  \/ Return(c)

NextRace ==
  \/ \E p \in Paths : InitializeSession(2, p)
  \/ GetSession(1, 1)
  \/ \E i \in Ids : RemoveSession(2, i)
  \/ \E c \in Callers : StepRace(c)
  \/ LoadPersistedRead
  \/ LoadPersistedWrite

SpecRace == InitRace /\ [][NextRace]_vars

\* overlapping calls that write rows: from the same start, one caller calls
\* setSessionOutputFormat for the session of the index (getSession, with its
\* rehydration, then persistSession of a session that has a row), the other
\* initializeSession and removeSession of that session
StepRows(c) == StepRace(c) \/ SetFormat(c)

NextRows ==
  \/ set_output_format(1, 1, "markdown")
  \/ \E p \in Paths : InitializeSession(2, p)
  \/ RemoveSession(2, 1)
  \/ \E c \in Callers : StepRows(c)
  \/ LoadPersistedRead
  \/ LoadPersistedWrite

SpecRows == InitRace /\ [][NextRows]_vars

\* the frame of the queries: two sessions are resident and in the index,
\* last accessed the day they were created, and days later queries are made
\* one at a time on their ids and on an id that resolves to nothing
Unknown == MaxIds + 1
InitFrame ==
  LET session(i) == [id |-> i, spec |-> Document("petstore.json", "ok"),
                     filePath |-> "petstore.json", createdAt |-> 0,
                     outputFormat |-> getDefaultOutputFormat]
      row(i) == [id |-> i, filePath |-> "petstore.json",
                 createdAt |-> toISOString(0), lastAccessed |-> toISOString(0),
                 outputFormat |-> getDefaultOutputFormat]
  IN /\ api = Petstore
     /\ sessions = [i \in Ids |-> session(i)]
     /\ index = [i \in Ids |-> row(i)]
     /\ now = MaxDay - 1
     /\ uuids = MaxIds
     /\ call = [c \in Callers |-> Idle]
     /\ maint = [pc |-> "done", buf |-> <<>>, failed |-> FALSE]
     /\ issued = Ids
     /\ staleBoot = {}
     /\ walk = NoWalk

StepFrame(c) ==
  \/ LoadRead(c) \/ RemovePersistedRead(c) \/ RemovePersistedWrite(c)
  \/ UpdateLastAccessedRead(c) \/ UpdateLastAccessedWrite(c)
  \/ AnswerQuery(c)
  \/ Return(c)

NextFrame ==
  \/ \E i \in Ids \cup {Unknown} : GetSessionInfo(1, i)
  \/ \E i \in Ids \cup {Unknown}, methods \in {None, Some(<<"GET">>)} :
        ListEndpoints(1, i, None, methods)
  \/ \E i \in Ids \cup {Unknown}, method \in {"get", "put"} :
        GetEndpointDetails(1, i, "/pets", method, Defaults)
  \/ \E i \in Ids \cup {Unknown} : GetTags(1, i)
  \/ \E i \in Ids \cup {Unknown}, componentType \in ComponentTypes :
        GetComponents(1, i, componentType)
  \/ StepFrame(1)
  \/ Tick

SpecFrame == InitFrame /\ [][NextFrame]_vars

\* the schema formatters: one session is resident, the components of its
\* document are schemas that refer to each other, and a schema is formatted
\* for its id or for an id that resolves to nothing
Names == {"A", "B"}
Node ==
  ObjectOf(<<<<"name", Primitive("string")>>, <<"next", Ref("A")>>,
             <<"all", ArrayOf(Ref("B"))>>, <<"tags", ArrayOf(Primitive("string"))>>>>)
Shapes ==
  {Primitive("string"), Node} \cup {Ref(n) : n \in Names}
    \cup {ArrayOf(Ref(n)) : n \in Names}
SchemaSets ==
  { Api(None, None, Some(<<<<"schemas", <<<<"A", a>>, <<"B", b>>>>>>>>), None) :
      a \in Shapes, b \in Shapes }
Entries == {Ref("A"), ArrayOf(Ref("B")), Node, Ref("C")}

InitWalk ==
  LET session == [id |-> 1, spec |-> Document("petstore.json", "ok"),
                  filePath |-> "petstore.json", createdAt |-> 0,
                  outputFormat |-> getDefaultOutputFormat]
  IN /\ api \in SchemaSets
     /\ sessions = MapSet(<<>>, 1, session)
     /\ index = <<[id |-> 1, filePath |-> "petstore.json",
                   createdAt |-> toISOString(0), lastAccessed |-> toISOString(0),
                   outputFormat |-> getDefaultOutputFormat]>>
     /\ now = 0
     /\ uuids = 1
     /\ call = [c \in Callers |-> Idle]
     /\ maint = [pc |-> "done", buf |-> <<>>, failed |-> FALSE]
     /\ issued = {1}
     /\ staleBoot = {}
     /\ walk = NoWalk

StepWalk(c) ==
  \/ WalkVisit(c) \/ WalkResume(c) \/ WalkAgain(c)
  \/ LoadRead(c) \/ RemovePersistedRead(c) \/ RemovePersistedWrite(c)
  \/ UpdateLastAccessedRead(c) \/ UpdateLastAccessedWrite(c)
  \/ AnswerQuery(c)

NextWalk ==
  \/ \E kind \in Formatters, i \in Ids, schema \in Entries : StartWalk(1, kind, i, schema)
  \/ StepWalk(1)

SpecWalk == InitWalk /\ [][NextWalk]_vars
\* every continuation the event loop holds is run
SpecWalkLive == SpecWalk /\ WF_vars(StepWalk(1))


(* ============================================================ properties *)
Finished(c, op) == call[c].pc = "done" /\ call[c].op = op
Pre(c) == call[c].pre[1]
Result(c) == call[c].res[1]
Unreadable == {"missing", "invalid"}
\* the row of id in rows, and the rows of the other ids
Row(rows, id) == rows[CHOOSE i \in 1..Len(rows) : rows[i].id = id]
Rest(rows, id) == LET other(r) == r.id # id IN SelectSeq(rows, other)

(* ---- C1 *)
\* What getSession(id) gives for a session that is only in the index.
Rehydrated(c) ==
  LET rec == call[c]
      row == Row(Pre(c).index, rec.id)
      got == Result(c).value
  IN /\ ~Result(c).threw
     /\ got # None
     /\ got[1].id = rec.id
     /\ got[1].filePath = row.filePath
     /\ toISOString(got[1].createdAt) = row.createdAt
     /\ got[1].spec = [doc |-> row.filePath, dereferenced |-> (rec.seen = "ok")]
     /\ rec.id \in DOMAIN sessions
     /\ sessions[rec.id] = got[1]

\* C1 as stated: after a restart, getSession(id) for an id that is not in
\* memory, whose index row exists and is not stale and whose source is not
\* found unreadable, returns the session of that row (same id, source and
\* createdAt, the document reloaded from the source) and leaves it resident.
C1_Original ==
  \A c \in Callers :
    ( /\ Finished(c, "getSession")
      /\ call[c].id \notin DOMAIN Pre(c).sessions
      /\ Has(Pre(c).index, call[c].id)
      /\ ~Stale(Row(Pre(c).index, call[c].id), call[c].t0)
      /\ call[c].seen \notin Unreadable )
    => Rehydrated(c)

\* C1, amended: the same, provided the rehydration's read of the index
\* succeeds (a failed read makes getSession report absence).
C1_Rehydration ==
  \A c \in Callers :
    ( /\ Finished(c, "getSession")
      /\ call[c].id \notin DOMAIN Pre(c).sessions
      /\ Has(Pre(c).index, call[c].id)
      /\ ~Stale(Row(Pre(c).index, call[c].id), call[c].t0)
      /\ call[c].seen \notin Unreadable
      /\ "load_read" \notin call[c].failed )
    => Rehydrated(c)

\* a session created on an earlier day comes back from an empty map
C1_Witness ==
  \E c \in Callers :
    /\ Finished(c, "getSession")
    /\ Pre(c).sessions = <<>>
    /\ Has(Pre(c).index, call[c].id)
    /\ ~Stale(Row(Pre(c).index, call[c].id), call[c].t0)
    /\ "load_read" \notin call[c].failed
    /\ call[c].seen = "ok"
    /\ Result(c).value # None
    /\ Result(c).value[1].createdAt < call[c].t0

C3_RemoveReportsExistence ==
  \A c \in Callers :
    ( /\ Finished(c, "removeSession")
      /\ call[c].failed = {} )
    => LET existed == \/ call[c].id \in DOMAIN Pre(c).sessions
                      \/ Has(Pre(c).index, call[c].id)
       IN /\ Result(c).value = existed
          /\ existed => /\ call[c].id \notin DOMAIN sessions
                        /\ ~Has(index, call[c].id)

(* ---- C4 *)
\* C4 as stated: a row that was stale when the manager was constructed is
\* gone from the index once the startup pass has run (its reads and writes
\* succeeding), and every getSession for its id, also one made before the
\* pass has finished, reports absence.
C4_StalePurged ==
  /\ (maint.pc = "done" /\ ~maint.failed /\ AllIdle)
       => \A id \in staleBoot : ~Has(index, id)
  /\ \A c \in Callers :
       ( /\ Finished(c, "getSession")
         /\ call[c].id \in staleBoot
         /\ ~maint.failed )
       => Result(c).value = None

(* ---- C5 *)
\* What getSession(id) leaves when the row's source cannot be read.
Purged(c) ==
  /\ ~Result(c).threw
  /\ Result(c).value = None
  /\ ~Has(index, call[c].id)
  /\ call[c].id \notin DOMAIN sessions
  /\ Rest(index, call[c].id) = Rest(Pre(c).index, call[c].id)

\* C5 as stated: getSession(id) that misses in memory and whose row names a
\* source that cannot be read or parsed returns absence, removes the row of
\* id, inserts no session and keeps the rows of the other ids.
C5_Original ==
  \A c \in Callers :
    ( /\ Finished(c, "getSession")
      /\ call[c].id \notin DOMAIN Pre(c).sessions
      /\ Has(Pre(c).index, call[c].id)
      /\ call[c].seen \in Unreadable )
    => Purged(c)

\* C5, amended: the same, provided the read and the write of the index that
\* remove the row succeed (when one fails the row stays).
C5_UnreadablePurged ==
  \A c \in Callers :
    ( /\ Finished(c, "getSession")
      /\ call[c].id \notin DOMAIN Pre(c).sessions
      /\ Has(Pre(c).index, call[c].id)
      /\ call[c].seen \in Unreadable
      /\ call[c].failed \cap {"rm_read", "rm_write"} = {} )
    => Purged(c)

\* the row of an unparseable source is purged from an index of two rows
C5_Witness ==
  \E c \in Callers :
    /\ Finished(c, "getSession")
    /\ call[c].id \notin DOMAIN Pre(c).sessions
    /\ Len(Pre(c).index) = 2
    /\ Has(Pre(c).index, call[c].id)
    /\ call[c].seen = "invalid"
    /\ call[c].failed = {}
    /\ Len(index) = 1

(* ---- C6 *)
\* C6: a successful initializeSession returns an identifier that no earlier
\* initializeSession returned, and when its index read and write succeeded
\* the session is in the map and the index holds the row of that id with
\* the session's source, creation time and a last-access time of the call.
C6_InitializeSession ==
  \A c \in Callers :
    ( /\ Finished(c, "initializeSession")
      /\ ~Result(c).threw )
    => LET id == Result(c).value
       IN /\ id \notin issued
          /\ call[c].failed = {} =>
               /\ id \in DOMAIN sessions
               /\ sessions[id].id = id
               /\ sessions[id].filePath = call[c].path
               /\ sessions[id].createdAt \in call[c].t0..now
               /\ Has(index, id)
               /\ Row(index, id).filePath = call[c].path
               /\ Row(index, id).createdAt = toISOString(sessions[id].createdAt)
               /\ parseDate(Row(index, id).lastAccessed) \in sessions[id].createdAt..now
               /\ Cardinality({i \in 1..Len(index) : index[i].id = id}) = 1

\* a second session is created and persisted beside the first
C6_Witness ==
  \E c \in Callers :
    /\ Finished(c, "initializeSession")
    /\ ~Result(c).threw
    /\ call[c].failed = {}
    /\ issued # {}
    /\ Len(index) = 2

(* ---- C7 *)
\* C7: initializeSession on a source that cannot be read or does not parse
\* throws 'Failed to parse OpenAPI spec: ' followed by the cause's message,
\* creates no session, and leaves the map and the index as they were.
C7_ParseError ==
  \A c \in Callers :
    ( /\ Finished(c, "initializeSession")
      /\ call[c].seen \in Unreadable )
    => /\ Result(c).threw
       /\ Len(Result(c).message) = 2
       /\ Result(c).message[1] = "Failed to parse OpenAPI spec: "
       /\ Result(c).message[2] = Cause(call[c].seen)
       /\ sessions = Pre(c).sessions
       /\ index = Pre(c).index
       /\ call[c].session = None

C7_Witness ==
  \E c \in Callers :
    /\ Finished(c, "initializeSession")
    /\ call[c].seen = "invalid"
    /\ Result(c).threw
    /\ Pre(c).sessions # <<>>
    /\ Pre(c).index # <<>>

(* ---- C8 *)
\* C8: when the source parses and the dereferencer fails, initializeSession
\* returns an identifier and getSession's rehydration returns a session, in
\* both cases a session that holds the raw document of the source.
C8_DereferenceDegraded ==
  \A c \in Callers :
    /\ ( Finished(c, "initializeSession") /\ call[c].seen = "noderef" )
         => /\ ~Result(c).threw
            /\ Result(c).value = call[c].session[1].id
            /\ call[c].session[1].spec =
                 [doc |-> call[c].path, dereferenced |-> FALSE]
    /\ ( Finished(c, "getSession") /\ call[c].seen = "noderef" )
         => /\ ~Result(c).threw
            /\ Result(c).value # None
            /\ Result(c).value[1].spec =
                 [doc |-> call[c].row[1].filePath, dereferenced |-> FALSE]

C8_Witness ==
  \E c \in Callers :
    /\ Finished(c, "initializeSession")
    /\ call[c].seen = "noderef"
    /\ ~Result(c).threw
    /\ call[c].id \in DOMAIN sessions
    /\ ~sessions[call[c].id].spec.dereferenced

(* ---- C9 *)
\* C9: a getSession(id) that returns a session, all its index reads and
\* writes succeeding, leaves the row of id with a lastAccessed inside the
\* time of the call; and no step of a run of non-overlapping operations
\* lowers the lastAccessed of a row.
C9_LastAccessed ==
  /\ [](\A c \in Callers :
          ( /\ Finished(c, "getSession")
            /\ Result(c).value # None
            /\ call[c].failed = {}
            /\ Has(Pre(c).index, call[c].id) )
          => /\ Has(index, call[c].id)
             /\ parseDate(Row(index, call[c].id).lastAccessed) \in call[c].t0..now)
  /\ [][\A id \in Ids :
          (Has(index, id) /\ Has(index', id))
          => parseDate(Row(index', id).lastAccessed)
               >= parseDate(Row(index, id).lastAccessed)]_vars

\* a lookup on a later day has moved the row's lastAccessed forward
C9_Witness ==
  \E c \in Callers :
    /\ Finished(c, "getSession")
    /\ Result(c).value # None
    /\ call[c].failed = {}
    /\ Has(Pre(c).index, call[c].id)
    /\ Has(index, call[c].id)
    /\ parseDate(Row(index, call[c].id).lastAccessed)
         > parseDate(Row(Pre(c).index, call[c].id).lastAccessed)

(* ---- C10 *)
\* C10: the result of initializeSession, and of getSession and removeSession
\* on a session that is in the map, is fixed by the source and the map
\* alone: it is the same whichever reads and writes of the index failed,
\* and no failure of the index is thrown to the caller.
C10_PersistenceFailureSwallowed ==
  \A c \in Callers :
    /\ Finished(c, "initializeSession")
         => /\ Result(c).threw <=> call[c].seen \in Unreadable
            /\ Result(c).threw =>
                 Result(c).message = <<"Failed to parse OpenAPI spec: ",
                                       Cause(call[c].seen)>>
            /\ ~Result(c).threw =>
                 /\ call[c].session # None
                 /\ Result(c).value = call[c].session[1].id
    /\ ( Finished(c, "getSession") /\ call[c].id \in DOMAIN Pre(c).sessions )
         => call[c].res = Returned(Some(Pre(c).sessions[call[c].id]))
    /\ ( Finished(c, "removeSession") /\ call[c].id \in DOMAIN Pre(c).sessions )
         => call[c].res = Returned(TRUE)

\* an initializeSession whose write of the index failed returns its id
C10_Witness ==
  \E c \in Callers :
    /\ Finished(c, "initializeSession")
    /\ "persist_write" \in call[c].failed
    /\ ~Result(c).threw
    /\ ~Has(index, call[c].id)

(* ---- C11 *)
\* set_output_format(id, f) has answered with success
FormatSet(c) == Finished(c, "set_output_format") /\ ~Result(c).threw
\* getSessionOutputFormat(id), asked right after set_output_format(id, f)
\* succeeded, returns f
SetThenGet(c) ==
  (/\ Finished(c, "getSessionOutputFormat")
   /\ call[c].prev # None
   /\ ~call[c].prev[1].threw)
  => Result(c).value = Some(call[c].prev[1].outputFormat)
\* getSessionOutputFormat(id) on a session that was only in the index (as
\* after a restart) and is rehydrated returns the format of its row
FormatSurvives(c) ==
  (/\ Finished(c, "getSessionOutputFormat")
   /\ call[c].id \notin DOMAIN Pre(c).sessions
   /\ Has(Pre(c).index, call[c].id)
   /\ Result(c).value # None)
  => Result(c).value = Some(Row(Pre(c).index, call[c].id).outputFormat)
\* set_output_format on an id that does not resolve answers 'Session not
\* found'
FormatNotFound(c) ==
  (Finished(c, "set_output_format") /\ Result(c).threw)
  => /\ Result(c).message = <<"Session not found">>
     /\ call[c].id \notin DOMAIN sessions

C12_QueriesFailOnlyUnresolved ==
  \A c \in Callers :
    (call[c].pc = "done" /\ call[c].op \in Queries)
    => /\ Result(c).threw <=> call[c].id \notin DOMAIN sessions
       /\ Result(c).threw => Result(c).message = <<"Session not found">>

(* ---- C13 *)
\* a query of the resident session has returned
Answered(c, op) ==
  /\ Finished(c, op)
  /\ call[c].id \in DOMAIN sessions
  /\ ~Result(c).threw
\* the path mapping of the document, the eight methods as the summaries
\* name them, and what it is for a path-item to define a method
PathsOf(doc) == IF doc.paths = None THEN <<>> ELSE doc.paths[1]
StandardMethods == <<"get", "post", "put", "delete", "patch", "head", "options", "trace">>
MethodLabels == <<"GET", "POST", "PUT", "DELETE", "PATCH", "HEAD", "OPTIONS", "TRACE">>
Defines(pathItem, k) ==
  /\ pathItem.kind = "object"
  /\ \E e \in 1..Len(pathItem.entries) : pathItem.entries[e][1] = StandardMethods[k]
OperationAt(pathItem, k) ==
  pathItem.entries[CHOOSE e \in 1..Len(pathItem.entries) :
                      pathItem.entries[e][1] = StandardMethods[k]][2]
\* summary s is the summary of method k of the i-th path
SummaryOf(s, doc, i, k) ==
  /\ s.path = PathsOf(doc)[i][1]
  /\ s.method = MethodLabels[k]
  /\ Defines(PathsOf(doc)[i][2], k)
  /\ s.operationId = OperationAt(PathsOf(doc)[i][2], k).operationId
  /\ s.tags = OperationAt(PathsOf(doc)[i][2], k).tags
\* the position of a summary: the index of its path, then of its method
PathIndex(s, doc) == CHOOSE i \in 1..Len(PathsOf(doc)) : PathsOf(doc)[i][1] = s.path
MethodIndex(s) == CHOOSE k \in 1..8 : MethodLabels[k] = s.method
Before(s, t, doc) ==
  \/ PathIndex(s, doc) < PathIndex(t, doc)
  \/ PathIndex(s, doc) = PathIndex(t, doc) /\ MethodIndex(s) < MethodIndex(t)
\* the (path, method) pairs the document defines, by their indices
Defined(doc) ==
  {ik \in (1..Len(PathsOf(doc))) \X (1..8) : Defines(PathsOf(doc)[ik[1]][2], ik[2])}
\* list holds exactly one summary for each pair of kept, in path order then
\* method order
ListsExactly(list, doc, kept) ==
  /\ \A n \in 1..Len(list) :
       \E ik \in kept : SummaryOf(list[n], doc, ik[1], ik[2])
  /\ \A ik \in kept :
       \E n \in 1..Len(list) : SummaryOf(list[n], doc, ik[1], ik[2])
  /\ \A n, m \in 1..Len(list) : n < m => Before(list[n], list[m], doc)

\* C13: listEndpoints with no filters returns exactly one summary for each
\* (path, method) pair whose path-item defines that one of the eight standard
\* methods, and nothing else, ordered by path in the document's path order
\* and, within a path, in the order get, post, put, delete, patch, head,
\* options, trace.
C13_ListEndpoints ==
  \A c \in Callers :
    (/\ Answered(c, "listEndpoints")
     /\ call[c].args.tags = None
     /\ call[c].args.methods = None)
    => ListsExactly(Result(c).value, api, Defined(api))

\* an unfiltered listing of two paths, the first of which declares post
\* before get and is listed GET then POST
C13_Witness ==
  \E c \in Callers :
    /\ Answered(c, "listEndpoints")
    /\ call[c].args.tags = None
    /\ call[c].args.methods = None
    /\ Len(Result(c).value) >= 3
    /\ Result(c).value[1].method = "GET"
    /\ Result(c).value[2].method = "POST"
    /\ Result(c).value[2].path = Result(c).value[1].path
    /\ Result(c).value[3].path # Result(c).value[1].path
    /\ PathsOf(api)[1][2].entries[1][1] = "post"

(* ---- C14 *)
\* a method name without its case
CaseFold(name) ==
  CASE name \in {"GET", "get"} -> "get"
    [] name \in {"POST", "Post", "post"} -> "post"
    [] OTHER -> name
\* the method filter lets method k through: no list, an empty list, or a
\* list with the method's name in any case
MethodKept(methods, k) ==
  \/ methods = None
  \/ methods = Some(<<>>)
  \/ \E j \in 1..Len(methods[1]) : CaseFold(methods[1][j]) = StandardMethods[k]

\* C14: listEndpoints(methods = M) with a non-empty M returns the unfiltered
\* listing restricted to the endpoints whose method is in M whatever the
\* case, in the same order; an empty or absent M filters nothing, and an M of
\* unrecognized names only gives the empty list.
C14_MethodFilter ==
  \A c \in Callers :
    (Answered(c, "listEndpoints") /\ call[c].args.tags = None)
    => /\ ListsExactly(Result(c).value, api,
                       {ik \in Defined(api) : MethodKept(call[c].args.methods, ik[2])})
       /\ call[c].args.methods = Some(<<"bogus">>) => Result(c).value = <<>>

\* a listing filtered by <<"Post", "get">> that keeps a GET and a POST
\* endpoint and drops a DELETE endpoint of the document
C14_Witness ==
  \E c \in Callers :
    /\ Answered(c, "listEndpoints")
    /\ call[c].args.tags = None
    /\ call[c].args.methods = Some(<<"Post", "get">>)
    /\ \E n, m \in 1..Len(Result(c).value) :
         Result(c).value[n].method = "GET" /\ Result(c).value[m].method = "POST"
    /\ \E ik \in Defined(api) : StandardMethods[ik[2]] = "delete"

(* ---- C15 *)
\* the tag filter lets the operation through: it carries a requested tag
TagKept(tags, operation) ==
  /\ operation.tags # None
  /\ \E j \in 1..Len(tags[1]), t \in 1..Len(operation.tags[1]) :
        tags[1][j] = operation.tags[1][t]

\* C15: listEndpoints(tags = T) with a non-empty T returns exactly the
\* endpoints whose operation carries a tag of T, untagged operations left
\* out; with a method filter as well, exactly the endpoints both filters
\* keep.
C15_TagFilter ==
  \A c \in Callers :
    (/\ Answered(c, "listEndpoints")
     /\ call[c].args.tags # None
     /\ call[c].args.tags # Some(<<>>))
    => ListsExactly(Result(c).value, api,
         {ik \in Defined(api) :
            /\ TagKept(call[c].args.tags, OperationAt(PathsOf(api)[ik[1]][2], ik[2]))
            /\ MethodKept(call[c].args.methods, ik[2])})

\* a listing filtered by the tags <<"admin", "store">> and the method GET
\* that keeps an endpoint, in a document with an untagged operation and with
\* a DELETE operation tagged store
C15_Witness ==
  \E c \in Callers :
    /\ Answered(c, "listEndpoints")
    /\ call[c].args.tags = Some(<<"admin", "store">>)
    /\ call[c].args.methods = Some(<<"GET">>)
    /\ Len(Result(c).value) > 0
    /\ \E ik \in Defined(api) : OperationAt(PathsOf(api)[ik[1]][2], ik[2]).tags = None
    /\ \E ik \in Defined(api) :
         /\ StandardMethods[ik[2]] = "delete"
         /\ OperationAt(PathsOf(api)[ik[1]][2], ik[2]).tags = Some(<<"store">>)

(* ---- C16 *)
\* the (path, method) pairs of the document that a path and a method name,
\* whatever its case, designate: one pair, or none
EndpointOf(doc, path, method) ==
  {ik \in Defined(doc) : /\ PathsOf(doc)[ik[1]][1] = path
                         /\ StandardMethods[ik[2]] = CaseFold(method)}
\* the method name in upper case
Label(method) ==
  CASE CaseFold(method) = "get" -> "GET"
    [] CaseFold(method) = "post" -> "POST"
    [] method = "delete" -> "DELETE"
    [] method = "parameters" -> "PARAMETERS"
\* a getEndpointDetails, or a get_endpoint_details tool call, on the resident
\* session has ended
Ended(c, op) == Finished(c, op) /\ call[c].id \in DOMAIN sessions
Asked(c) == EndpointOf(api, call[c].args.path, call[c].args.method)

\* C16: on a resolved session getEndpointDetails(path, method, options)
\* returns null, without failing, exactly when the path is not in the
\* document or its path-item does not define the method (compared whatever
\* the case); the get_endpoint_details tool then answers the error
\* 'Endpoint not found: <METHOD> <path>'.
C16_EndpointNotFound ==
  \A c \in Callers :
    /\ Ended(c, "getEndpointDetails")
         => ((~Result(c).threw /\ Result(c).value = None) <=> Asked(c) = {})
    /\ (Ended(c, "get_endpoint_details") /\ Asked(c) = {})
         => /\ Result(c).threw
            /\ Result(c).message = <<"Endpoint not found: ", Label(call[c].args.method),
                                      " ", call[c].args.path>>

(* ---- C17 *)
\* the operation a call designates
AskedOperation(c) ==
  LET ik == CHOOSE ik \in Asked(c) : TRUE
  IN OperationAt(PathsOf(api)[ik[1]][2], ik[2])

\* C17: for an endpoint of the document, getEndpointDetails with the six
\* include flags all false returns a detail that has the path, the method
\* and the operation's operationId, summary, description and tags, and no
\* parameters, requestBody, responses or security.
C17_AllFlagsFalse ==
  \A c \in Callers :
    (/\ Ended(c, "getEndpointDetails")
     /\ call[c].args.options = AllFlags(FALSE)
     /\ Asked(c) # {})
    => /\ ~Result(c).threw
       /\ Result(c).value # None
       /\ LET details == Result(c).value[1]
          IN /\ details.path = call[c].args.path
             /\ details.method = Label(call[c].args.method)
             /\ details.operationId = AskedOperation(c).operationId
             /\ details.summary = AskedOperation(c).summary
             /\ details.description = AskedOperation(c).description
             /\ details.tags = AskedOperation(c).tags
             /\ details.parameters = None
             /\ details.requestBody = None
             /\ details.responses = None
             /\ details.security = None

\* the bare detail of an operation that has path-level parameters, a request
\* body, responses and a security requirement
C17_Witness ==
  \E c \in Callers :
    /\ Ended(c, "getEndpointDetails")
    /\ call[c].args.options = AllFlags(FALSE)
    /\ Asked(c) # {}
    /\ AskedOperation(c).requestBody # None
    /\ AskedOperation(c).responses # None
    /\ AskedOperation(c).security # None
    /\ ~Result(c).threw
    /\ Result(c).value # None
    /\ Result(c).value[1].operationId = Some("createPet")
    /\ Result(c).value[1].requestBody = None

(* ---- C18 *)
\* C18 as stated: getEndpointDetails called with no options populates what
\* the flags that default to true ask for, the parameters and the responses
C18_Original ==
  \A c \in Callers :
    (/\ Ended(c, "getEndpointDetails")
     /\ call[c].args.options = NoOptions
     /\ Asked(c) # {}
     /\ ~Result(c).threw)
    => /\ Result(c).value # None
       /\ Result(c).value[1].parameters # None
       /\ AskedOperation(c).responses # None => Result(c).value[1].responses # None

\* the first media object of a content mapping
FirstMedia(content) == content[1][2]

\* C18: a flag omitted from a get_endpoint_details request takes its
\* documented default in the tool handler: parameters, request body and
\* responses are populated with their schemas and without examples, security
\* is not, and the request without flags gives the detail of the manager
\* call with the defaults spelled out; the manager's getEndpointDetails
\* itself treats an omitted flag as false.
C18_HandlerDefaults ==
  \A c \in Callers :
    /\ (Ended(c, "get_endpoint_details") /\ ~Result(c).threw /\ Asked(c) # {})
         => LET details == Result(c).value.data
                operation == AskedOperation(c)
                given == call[c].args.options
            IN /\ details.parameters # None
               /\ details.requestBody # None <=> operation.requestBody # None
               /\ details.responses # None <=> operation.responses # None
               /\ details.requestBody # None =>
                    /\ details.requestBody[1].examples = None
                    /\ details.requestBody[1].schema =
                         FirstMedia(operation.requestBody[1].content[1]).schema
               /\ details.responses # None =>
                    /\ Len(details.responses[1]) = Len(operation.responses[1])
                    /\ \A i \in 1..Len(details.responses[1]) :
                         details.responses[1][i].examples = None
               /\ given.includeSecurity = None => details.security = None
               /\ given.includeSecurity = Some(TRUE) =>
                    details.security = (IF operation.security # None
                                        THEN operation.security ELSE api.security)
               /\ given = NoOptions =>
                    Returned(Some(details)) =
                      getEndpointDetails(api, call[c].args.path, call[c].args.method,
                                         Defaults)
    /\ (/\ Ended(c, "getEndpointDetails")
        /\ call[c].args.options = NoOptions
        /\ ~Result(c).threw
        /\ Result(c).value # None)
         => /\ Result(c).value[1].parameters = None
            /\ Result(c).value[1].requestBody = None
            /\ Result(c).value[1].responses = None
            /\ Result(c).value[1].security = None

\* a get_endpoint_details request without flags answered with the path-level
\* parameter, the request body and both responses of the operation, and
\* without security
C18_Witness ==
  \E c \in Callers :
    /\ Ended(c, "get_endpoint_details")
    /\ call[c].args.options = NoOptions
    /\ ~Result(c).threw
    /\ Asked(c) # {}
    /\ AskedOperation(c).security # None
    /\ Result(c).value.data.parameters # None
    /\ Len(Result(c).value.data.parameters[1]) = 1
    /\ Result(c).value.data.requestBody # None
    /\ Result(c).value.data.responses # None
    /\ Len(Result(c).value.data.responses[1]) = 2
    /\ Result(c).value.data.security = None

(* ---- C19 *)
\* the names of the globally declared tags
DeclaredTags(doc) ==
  IF doc.tags = None THEN <<>> ELSE [i \in 1..Len(doc.tags[1]) |-> doc.tags[1][i].name]
\* where operations carry tags: path i, method k, j-th tag of the operation
TagPlaces(doc) ==
  {p \in Defined(doc) \X (1..2) :
     LET operation == OperationAt(PathsOf(doc)[p[1][1]][2], p[1][2])
     IN operation.tags # None /\ p[2] <= Len(operation.tags[1])}
TagAt(doc, p) == OperationAt(PathsOf(doc)[p[1][1]][2], p[1][2]).tags[1][p[2]]
\* a place comes before another in the walk of paths in document order,
\* methods in the canonical order, tags in the operation's order
Earlier(p, q) ==
  \/ p[1][1] < q[1][1]
  \/ p[1][1] = q[1][1] /\ p[1][2] < q[1][2]
  \/ p[1] = q[1] /\ p[2] < q[2]
FirstSeen(doc, tag) ==
  CHOOSE p \in TagPlaces(doc) :
    /\ TagAt(doc, p) = tag
    /\ \A q \in TagPlaces(doc) : TagAt(doc, q) = tag => ~Earlier(q, p)
Range(seq) == {seq[i] : i \in 1..Len(seq)}

\* C19: getTags returns each tag name once: the globally declared tags in
\* declaration order, then the tags found on operations only, in the order
\* they are first met walking paths in document order and methods in the
\* canonical order; a document whose only tag is 'pets' gives <<'pets'>>.
C19_GetTags ==
  \A c \in Callers :
    Answered(c, "getTags")
    => LET tags == Result(c).value
           declared == DeclaredTags(api)
       IN /\ \A n, m \in 1..Len(tags) : n # m => tags[n] # tags[m]
          /\ Range(tags) = Range(declared) \cup {TagAt(api, p) : p \in TagPlaces(api)}
          /\ \A i \in 1..Len(declared) : tags[i] = declared[i]
          /\ \A n, m \in (Len(declared) + 1)..Len(tags) :
               n < m => Earlier(FirstSeen(api, tags[n]), FirstSeen(api, tags[m]))
          /\ Range(tags) = {"pets"} => tags = <<"pets">>

\* the tags of a document that declares store and pets and whose first
\* operation carries admin before pets: store, pets, admin
C19_Witness ==
  \E c \in Callers :
    /\ Answered(c, "getTags")
    /\ DeclaredTags(api) = <<"store", "pets">>
    /\ \E p \in TagPlaces(api) :
         /\ TagAt(api, p) = "admin"
         /\ \A q \in TagPlaces(api) : ~Earlier(q, p)
    /\ Result(c).value = <<"store", "pets", "admin">>

(* ---- C20 *)
\* a formatter call is running or awaits getComponents
Formatting == walk.pc \in {"visit", "resolve"}

\* C20: formatting a schema, whatever reference cycles the component
\* schemas make (a $ref or a property that leads back to its schema, directly
\* or through another schema, a component that is only a $ref to itself),
\* terminates in the Markdown and in the HTML formatter, and a call entered
\* at a depth greater than 3 emits the 'max depth reached' placeholder.
C20_Terminates ==
  /\ Formatting ~> (walk.pc = "done")
  /\ [][(walk.pc = "visit" /\ walk.depth > 3)
          => Emitted("max depth reached", walk.schema[1], walk.depth) \in walk'.visits]_vars

(* ---- C21 *)
\* C21: in both formatters the depth starts at 0 and every recursive call
\* (for the items of an array, for the target of a resolved $ref, for an
\* expanded property) is made with depth + 1: the running call's depth is
\* the number of calls in progress less one, and no more than 5 calls are
\* ever in progress.
C21_DepthCounts ==
  Formatting => /\ walk.depth = walk.calls - 1
                /\ walk.calls <= 5

(* ---- C22 *)
\* the strategy a format name selects as stated: the four names their own,
\* every other name and no name Compact
Selected(format) ==
  CASE format = "json" -> "JsonTransformer"
    [] format = "structured" -> "StructuredTransformer"
    [] format = "markdown" -> "MarkdownTransformer"
    [] OTHER -> "CompactTransformer"
Replied(c, op) ==
  /\ call[c].pc = "replied"
  /\ call[c].op = op
  /\ ~call[c].reply[1].isError

\* C22: the strategy is a function of the format name alone, 'json' Raw,
\* 'compact' Compact, 'structured' Structured, 'markdown' Markdown, and every
\* unrecognized or absent name Compact: the success text of set_output_format
\* and of initialize_session is the one the strategy selected so for the
\* request's format writes.
C22_CreateTransformer ==
  \A c \in Callers :
    /\ Replied(c, "set_output_format") =>
         call[c].reply[1].text =
           transformSuccess(Selected(call[c].args.outputFormat), TRUE, None,
                            <<"Output format changed to ", call[c].args.outputFormat>>)
    /\ Replied(c, "initializeSession") =>
         call[c].reply[1].text =
           transformSuccess(Selected(call[c].args.outputFormat), TRUE,
                            Some(ToString(call[c].id)),
                            <<"Session initialized successfully for ", call[c].path>>)

(* ---- C23 *)
\* a query tool has replied with the text for an empty collection
Rendered(c, op) == Replied(c, op) /\ call[c].res[1].value.data = <<>>
Strategy(c) == createTransformer(call[c].res[1].value.format)
CollectionTools == {"list_endpoints", "get_tags", "get_components"}
Sentences ==
  <<<<"list_endpoints", "No endpoints found">>, <<"get_tags", "No tags found">>,
    <<"get_components", "No components found">>>>
EmptyStructures ==
  <<<<"list_endpoints", [count |-> 0, endpoints |-> <<>>]>>,
    <<"get_tags", [count |-> 0, tags |-> <<>>]>>,
    <<"get_components", <<>>>>>>

\* C23 as stated: each of the four strategies, given an empty endpoint list,
\* an empty tag list or an empty components mapping, returns the sentence
\* 'No endpoints found' / 'No tags found' / 'No components found'.
C23_Original ==
  \A c \in Callers : \A op \in CollectionTools :
    Rendered(c, op) => call[c].reply[1].text = Sentence(Get(Sentences, op)[1])

\* C23: given an empty endpoint list, an empty tag list or an empty components
\* mapping, the Compact, Structured and Markdown strategies return the
\* sentence 'No endpoints found' / 'No tags found' / 'No components found';
\* the Raw strategy returns the serialized empty structure.
C23_EmptyCollections ==
  \A c \in Callers : \A op \in CollectionTools :
    Rendered(c, op) =>
      IF Strategy(c) = "JsonTransformer"
      THEN /\ call[c].reply[1].text.lines = <<>>
           /\ call[c].reply[1].text.json = Some(Get(EmptyStructures, op)[1])
      ELSE call[c].reply[1].text = Sentence(Get(Sentences, op)[1])

\* the Markdown strategy has answered get_tags for a document without tags,
\* the Raw strategy get_components for one without components
C23_Witness ==
  \E c \in Callers :
    \/ Rendered(c, "get_tags") /\ Strategy(c) = "MarkdownTransformer"
    \/ Rendered(c, "get_components") /\ Strategy(c) = "JsonTransformer"

Touched(c) == IF call[c].id # 0 THEN call[c].id ELSE call'[c].id
\* the map entry and the index row of session b are what they were
Same(b) ==
  /\ (b \in DOMAIN sessions) = (b \in DOMAIN sessions')
  /\ b \in DOMAIN sessions => sessions'[b] = sessions[b]
  /\ Has(index, b) = Has(index', b)
  /\ Has(index, b) => RowOf(index', b) = RowOf(index, b)
NoFailure == \A c \in Callers : call[c].failed = {} /\ call'[c].failed = {}

\* C25: sessions are independent: no step of an operation on session A
\* (initializeSession producing A, getSession, removeSession) adds, removes
\* or changes the map entry or the index row of another session B, in any
\* interleaving of the operations' steps.
C25_Independent ==
  [][\A c \in Callers :
       call'[c] # call[c] => \A b \in Ids \ {Touched(c)} : Same(b)]_vars

(* ---- C27 *)
\* removeSession(id) has returned true to caller c, and none of its index
\* reads or writes failed
Removed(c) ==
  /\ call[c].op = "removeSession"
  /\ call[c].pc = "done"
  /\ call[c].res = Returned(TRUE)
  /\ call[c].failed = {}
\* caller d's getSession returns in this step
GetSessionReturns(d) ==
  /\ call[d].op = "getSession"
  /\ call[d].pc # "done"
  /\ call'[d].pc = "done"

\* C27: removal is final: once removeSession(id) has returned true the index
\* holds no row for id and the map no session for id, and a getSession(id)
\* that returns after it reports absence, whatever getSession(id) calls were
\* in flight when the removal ran.
C27_RemovalFinal ==
  /\ [](\A c \in Callers :
          Removed(c) => ~Has(index, call[c].id) /\ call[c].id \notin DOMAIN sessions)
  /\ [][\A c, d \in Callers :
          Removed(c) /\ GetSessionReturns(d) /\ call[d].id = call[c].id
            => call'[d].res = Returned(None)]_vars

(* ---- C28 *)
\* the startup pass rewrites the index in this step
PassWrites == maint.pc = "m_write" /\ maint'.pc = "done"

\* C28: the startup pass removes only rows last accessed StaleDays or more
\* ago: its rewrite of the index keeps, as it is, every row that is not stale
\* when the rewrite happens, the rows written by initializeSession or
\* refreshed by getSession since the pass read the index included.
C28_PassKeepsFresh ==
  [][PassWrites =>
       \A i \in 1..Len(index) :
         ~Stale(index[i], now) => \E j \in 1..Len(index') : index'[j] = index[i]]_vars

(* ---- C29 *)
\* C29: in every reachable state the index holds at most one row per session
\* id, and the map at most one session per id: the session under a key is the
\* session of that id.
C29_OneRowPerId ==
  /\ \A i, j \in 1..Len(index) : index[i].id = index[j].id => i = j
  /\ \A k \in DOMAIN sessions : sessions[k].id = k

\* two calls are in flight, one about to write the index, while the index
\* holds two rows and the map a session
C29_Witness ==
  /\ Len(index) = 2
  /\ DOMAIN sessions # {}
  /\ call[1].pc = "persist_write"
  /\ call[2].op # "idle"

(* ---- C30 *)
IdsOf(rows) == {rows[i].id : i \in 1..Len(rows)}
\* caller c runs a query on a session that was resident when it started; on
\* an id that was then neither resident nor in the index
OnResident(c) ==
  call[c].op \in Queries /\ call[c].id \in DOMAIN Pre(c).sessions
OnNothing(c) ==
  /\ call[c].op \in Queries
  /\ call[c].id \notin DOMAIN Pre(c).sessions
  /\ ~Has(Pre(c).index, call[c].id)

\* C30: getSessionInfo, listEndpoints, getEndpointDetails, getTags and
\* getComponents, run without overlap on a resident session, leave the set of
\* resident sessions, every session's specification, source and createdAt
\* and the ids of the index as they were, and change nothing in the index but
\* the lastAccessed of the row of the session asked about; on an id that is
\* neither resident nor in the index they change nothing.
C30_QueriesReadOnly ==
  \A c \in Callers :
    /\ OnResident(c) =>
         /\ DOMAIN sessions = DOMAIN Pre(c).sessions
         /\ \A k \in DOMAIN sessions :
              /\ sessions[k].spec = Pre(c).sessions[k].spec
              /\ sessions[k].filePath = Pre(c).sessions[k].filePath
              /\ sessions[k].createdAt = Pre(c).sessions[k].createdAt
         /\ IdsOf(index) = IdsOf(Pre(c).index)
         /\ Rest(index, call[c].id) = Rest(Pre(c).index, call[c].id)
         /\ Has(index, call[c].id) =>
              [Row(index, call[c].id) EXCEPT !.lastAccessed = toISOString(0)]
                = [Row(Pre(c).index, call[c].id) EXCEPT !.lastAccessed = toISOString(0)]
    /\ OnNothing(c) => sessions = Pre(c).sessions /\ index = Pre(c).index

\* a query on a resident session has returned its answer and the row of the
\* session has a new lastAccessed, next to the row of another session
C30_Witness ==
  \E c \in Callers :
    /\ OnResident(c)
    /\ call[c].pc = "done"
    /\ ~Result(c).threw
    /\ Row(index, call[c].id).lastAccessed # Row(Pre(c).index, call[c].id).lastAccessed
    /\ Rest(index, call[c].id) # <<>>

(* ---- C26 *)
\* both formatters have formatted the same schema of the same session
Compared == walk.pc = "done" /\ walk.prev # None

\* C26: the Markdown walk and the HTML walk of one schema over one set of
\* component schemas are the same traversal: they emit the same kinds of
\* output for the same schema nodes at the same depths (same tables, same
\* expanded properties, same truncations).
C26_SameTraversal ==
  Compared => walk.visits = walk.prev[1].visits
====
